---- MODULE Spec2Model ----
(***************************************************************************)
(* Quadtree LOD engine and tiered terrain generator of the ellipsoid       *)
(* planet renderer: QuadtreeNode / QuadTreeManager (build, balance),       *)
(* TerrainGenerator.getHeight with its feature generators.                 *)
(*                                                                         *)
(* Units.  Angles of quadtree nodes are grid indices (the root spans       *)
(* 2^MaxDepth cells in theta and in phi).  Lengths are hundredths of a    *)
(* length unit, heights / noise / temperatures are thousandths.            *)
(***************************************************************************)
EXTENDS Integers, Sequences, FiniteSets, TLC

VARIABLES
    lodDistances,   \* EllipsoidMesh.lodDistances (sorted ascending), fixed at construction
    internal,       \* set of quadtree nodes that have children
    rootBase,       \* root.baseHeight: NoBase (null) or the record getHeight returned
    queue,          \* balanceTree's work queue
    pc,             \* "idle" | "balance": position inside buildTree
    camera,         \* camera position of the last buildTree
    visits,         \* <<node, distance, desiredLevel>> of each node visited by the last descent
    forced,         \* nodes subdivided by the running / last balanceTree
    warned,         \* TRUE iff the last balanceTree raised a warning or error
    builds,         \* number of buildTree calls so far
    featureMap,     \* TerrainGenerator.featureMap: coarse key -> nodeData
    enabled,        \* featureGenerators[*].enabled, by generator class name
    seed,           \* the seed of the noise function
    lastCall,       \* operation and arguments of the last call on the TerrainGenerator
    lastRet,        \* what that call returned (or that it threw)
    calls,          \* number of calls made on the TerrainGenerator from outside the mesh
    returned,       \* per position, the <<distance, result>> of each getHeight since the last regenerateTerrain
    vertexMap,      \* EllipsoidMesh.vertexMap: vertex key -> index
    positions,      \* EllipsoidMesh.positions, one <<x, y, z>> per vertex
    colors,         \* EllipsoidMesh.colors, one <<r, g, b>> per vertex
    indices,        \* EllipsoidMesh.indices
    snapshot,       \* camera and positions of the mesh at the last regenerateTerrain
    flat,           \* nodes subdivided with changeLevel = false (src/QuadtreeNode.js)
    iteration       \* the pass counter of the capped balanceTree (src/QuadtreeNode.js)

treeVars == <<lodDistances, internal, rootBase, queue, pc, camera, visits, forced, warned, builds>>
terrVars == <<featureMap, enabled, seed>>
callVars == <<lastCall, lastRet, calls, returned>>
meshVars == <<vertexMap, positions, colors, indices, snapshot>>
cappedVars == <<flat, iteration>>
vars == <<lodDistances, internal, rootBase, queue, pc, camera, visits, forced, warned, builds,
          featureMap, enabled, seed, lastCall, lastRet, calls, returned,
          vertexMap, positions, colors, indices, snapshot, flat, iteration>>

-----------------------------------------------------------------------------
(* Bounds of the model *)

MaxBuilds == 2
MaxCalls == 3

-----------------------------------------------------------------------------
(* Small helpers *)

RECURSIVE SumSeq(_)
SumSeq(s) == IF s = <<>> THEN 0 ELSE Head(s) + SumSeq(Tail(s))

RECURSIVE Flat(_)
Flat(ss) == IF ss = <<>> THEN <<>> ELSE Head(ss) \o Flat(Tail(ss))

Includes(s, x) == \E k \in 1..Len(s) : s[k] = x

Range(s) == {s[k] : k \in 1..Len(s)}

Abs(x) == IF x < 0 THEN -x ELSE x

\* Math.round: nearest integer, halves towards +infinity; x is num/den, den > 0
RoundDiv(num, den) == (2 * num + den) \div (2 * den)

Null == "null"

-----------------------------------------------------------------------------
(* Angles.  One angle unit is pi/32: theta runs over 0..HalfTurn and phi   *)
(* over 0..2*HalfTurn.  Every corner and centre of a node of level <= 4 is  *)
(* a whole number of units.                                                *)

HalfTurn == 32

\* Math.sin at 0, pi/32, ..., pi/2, in thousandths
QuarterSine == <<0, 98, 195, 290, 383, 471, 556, 634, 707, 773, 831, 882, 924, 957, 981, 995, 1000>>

Sin(k) ==
    LET m == k % (2 * HalfTurn) IN
    IF m <= HalfTurn \div 2 THEN QuarterSine[m + 1]
    ELSE IF m <= HalfTurn THEN QuarterSine[HalfTurn - m + 1]
    ELSE IF m <= 3 * (HalfTurn \div 2) THEN -QuarterSine[m - HalfTurn + 1]
    ELSE -QuarterSine[2 * HalfTurn - m + 1]

Cos(k) == Sin(k + HalfTurn \div 2)

\* an angle of k units in millionths of a radian (pi/32 = 0.098175)
MicroRad(k) == k * 98175

-----------------------------------------------------------------------------
(* Feature generators: the featureGenerators table of the TerrainGenerator *)
(* constructor, in registration order, and each class's fixed lists.       *)

GenOrder ==
    << "CraterGenerator", "VolcanoGenerator", "TectonicPlateGenerator", "VastPlainsGenerator",
       "MagneticAnomalyGenerator", "LavaFlowGenerator", "DesertPavementGenerator",
       "SandDuneGenerator", "GlacialFeatureGenerator", "KarstTopographyGenerator",
       "WetlandGenerator", "PermafrostGenerator", "OasisGenerator", "FoothillGenerator",
       "ValleyAndRiverGenerator", "CoralReefGenerator", "FumaroleGenerator" >>

GenNames == Range(GenOrder)

MaxDistanceOf(g) ==
    IF g \in {"CraterGenerator", "VolcanoGenerator", "TectonicPlateGenerator", "VastPlainsGenerator",
              "MagneticAnomalyGenerator", "LavaFlowGenerator", "DesertPavementGenerator"} THEN 600
    ELSE IF g \in {"SandDuneGenerator", "GlacialFeatureGenerator", "KarstTopographyGenerator",
                   "WetlandGenerator", "PermafrostGenerator", "OasisGenerator"} THEN 200
    ELSE 100

\* the label a generator returns when it applies
LabelOf(g) ==
    CASE g = "CraterGenerator" -> "crater"
      [] g = "VolcanoGenerator" -> "volcano"
      [] g = "TectonicPlateGenerator" -> "tectonic_plate"
      [] g = "VastPlainsGenerator" -> "plain"
      [] g = "MagneticAnomalyGenerator" -> "magnetic_anomaly"
      [] g = "LavaFlowGenerator" -> "lava_flow"
      [] g = "DesertPavementGenerator" -> "desert_pavement"
      [] g = "SandDuneGenerator" -> "sand_dune"
      [] g = "GlacialFeatureGenerator" -> "glacial"
      [] g = "KarstTopographyGenerator" -> "karst"
      [] g = "WetlandGenerator" -> "wetland"
      [] g = "PermafrostGenerator" -> "permafrost"
      [] g = "OasisGenerator" -> "oasis"
      [] g = "FoothillGenerator" -> "foothill"
      [] g = "ValleyAndRiverGenerator" -> "valley"
      [] g = "CoralReefGenerator" -> "coral_reef"
      [] g = "FumaroleGenerator" -> "fumarole"

\* compatibleFeatures of each class's canApplyWith
CompatibleFeatures(g) ==
    CASE g = "CraterGenerator" -> {"plain", "valley", "sand_dune"}
      [] g = "VolcanoGenerator" -> {"tectonic_plate", "lava_flow", "fumarole", "foothill"}
      [] g = "TectonicPlateGenerator" -> {"volcano", "valley", "river", "rift", "fumarole", "foothill"}
      [] g = "VastPlainsGenerator" -> {"crater", "sand_dune", "wetland", "oasis"}
      [] g = "MagneticAnomalyGenerator" -> {"tectonic_plate", "volcano", "lava_flow"}
      [] g = "LavaFlowGenerator" -> {"volcano", "tectonic_plate", "fumarole"}
      [] g = "DesertPavementGenerator" -> {"sand_dune", "oasis"}
      [] g = "SandDuneGenerator" -> {"desert_pavement", "oasis", "plain"}
      [] g = "GlacialFeatureGenerator" -> {"permafrost", "valley"}
      [] g = "KarstTopographyGenerator" -> {"valley", "river"}
      [] g = "WetlandGenerator" -> {"river", "plain", "valley"}
      [] g = "PermafrostGenerator" -> {"glacial", "valley"}
      [] g = "OasisGenerator" -> {"sand_dune", "desert_pavement"}
      [] g = "FoothillGenerator" -> {"tectonic_plate", "volcano", "valley"}
      [] g = "ValleyAndRiverGenerator" -> {"river", "tributary", "mouth", "tectonic_plate", "glacial", "karst"}
      [] g = "CoralReefGenerator" -> {"underwater"}
      [] g = "FumaroleGenerator" -> {"volcano", "tectonic_plate", "lava_flow"}

\* prohibitedFeatures of each class's canApplyWithout
ProhibitedFeatures(g) ==
    CASE g = "CraterGenerator" -> {"volcano", "lava_flow", "wetland", "coral_reef", "river"}
      [] g = "VolcanoGenerator" -> {"glacial", "permafrost", "wetland", "coral_reef"}
      [] g = "TectonicPlateGenerator" -> {"crater", "desert_pavement", "sand_dune"}
      [] g = "VastPlainsGenerator" -> {"volcano", "tectonic_plate", "foothill", "valley"}
      [] g = "MagneticAnomalyGenerator" -> {"wetland", "coral_reef", "glacial", "permafrost"}
      [] g = "LavaFlowGenerator" -> {"glacial", "permafrost", "wetland", "coral_reef"}
      [] g = "DesertPavementGenerator" -> {"wetland", "river", "coral_reef", "volcano", "lava_flow"}
      [] g = "SandDuneGenerator" -> {"wetland", "river", "coral_reef", "volcano", "foothill"}
      [] g = "GlacialFeatureGenerator" -> {"volcano", "lava_flow", "fumarole", "desert_pavement", "oasis", "wetland"}
      [] g = "KarstTopographyGenerator" -> {"desert_pavement", "sand_dune", "volcano", "lava_flow"}
      [] g = "WetlandGenerator" -> {"desert_pavement", "sand_dune", "oasis", "glacial", "permafrost"}
      [] g = "PermafrostGenerator" -> {"volcano", "lava_flow", "fumarole", "wetland", "oasis"}
      [] g = "OasisGenerator" -> {"glacial", "permafrost", "volcano", "foothill", "wetland"}
      [] g = "FoothillGenerator" -> {"plain", "wetland", "sand_dune", "desert_pavement"}
      [] g = "ValleyAndRiverGenerator" -> {"plain", "sand_dune", "desert_pavement"}
      [] g = "CoralReefGenerator" -> {"glacial", "permafrost", "volcano", "lava_flow", "fumarole"}
      [] g = "FumaroleGenerator" -> {"glacial", "permafrost", "wetland", "coral_reef"}

-----------------------------------------------------------------------------
(* Configuration of the TerrainGenerator for semi-axes a = b = c = 5       *)
(* (planetaryScale = 0.005).  Amplitudes and heights in thousandths,       *)
(* frequencies in millionths.                                              *)

SemiAxis == 5
BaseFrequency == 5000
BaseAmplitude == 283
DetailFrequency == 10000
DetailAmplitude == 141
OceanFrequency == 500
OceanAmplitude == 2828
OceanOctaves == 2
WaterLevel == 0
WaterBlend == 500
ErosionFactor == 300

Undefined == "undefined"

Biomes == {"polar", "equatorial", "temperate", "highland", "rift"}

\* BiomeManager.defineBiomes: amplitudeScale and frequencyScale in tenths
BiomeParams(biome) ==
    CASE biome = "polar" -> [amplitudeScale |-> 5, octaves |-> 2, frequencyScale |-> 8]
      [] biome = "equatorial" -> [amplitudeScale |-> 15, octaves |-> 4, frequencyScale |-> 12]
      [] biome = "temperate" -> [amplitudeScale |-> 10, octaves |-> 3, frequencyScale |-> 10]
      [] biome = "highland" -> [amplitudeScale |-> 20, octaves |-> 5, frequencyScale |-> 15]
      [] biome = "rift" -> [amplitudeScale |-> 7, octaves |-> 3, frequencyScale |-> 11]

\* BiomeManager.defineBiomes: featureModifiers, in thousandths
FeatureModifiers(biome) ==
    CASE biome = "polar" -> [f \in {"glacial", "permafrost", "volcano", "wetland"} |->
            CASE f = "glacial" -> 1500 [] f = "permafrost" -> 1300 [] f = "volcano" -> 200 [] f = "wetland" -> 300]
      [] biome = "equatorial" -> [f \in {"wetland", "coral_reef", "sand_dune", "glacial"} |->
            CASE f = "wetland" -> 1400 [] f = "coral_reef" -> 1500 [] f = "sand_dune" -> 1200 [] f = "glacial" -> 100]
      [] biome = "temperate" -> [f \in {"valley", "river", "foothill", "desert_pavement"} |->
            CASE f = "valley" -> 1200 [] f = "river" -> 1200 [] f = "foothill" -> 1100 [] f = "desert_pavement" -> 500]
      [] biome = "highland" -> [f \in {"foothill", "valley", "volcano", "plain"} |->
            CASE f = "foothill" -> 1500 [] f = "valley" -> 1300 [] f = "volcano" -> 1200 [] f = "plain" -> 400]
      [] biome = "rift" -> [f \in {"tectonic_plate", "valley", "magnetic_anomaly", "sand_dune"} |->
            CASE f = "tectonic_plate" -> 1500 [] f = "valley" -> 1300 [] f = "magnetic_anomaly" -> 1200 [] f = "sand_dune" -> 300]

\* BiomeManager.getFeatureModifier: biomeDefinitions[biome] is undefined for a
\* biome that is no key of the table, and reading .featureModifiers of it throws
getFeatureModifierThrows(biome) == biome \notin Biomes

getFeatureModifier(biome, feature) ==
    IF feature \in DOMAIN FeatureModifiers(biome) THEN FeatureModifiers(biome)[feature] ELSE 1000

\* the seeded coherent-noise function noise(x, y) in [-1, 1] (thousandths);
\* x, y in millionths, salt is the additive constant of the call site
NoiseAt(x, y, salt) ==
    (((x % 9973) * 31 + (y % 9949) * 17 + salt * 7 + seed * 1013) % 2001) - 1000

\* this.noise(theta * f, phi * f + salt), f in tenths
FeatureNoise(theta, phi, f, salt) ==
    NoiseAt((MicroRad(theta) * f) \div 10, (MicroRad(phi) * f) \div 10, salt)

\* computeLatitude with rotationAxis = [0, 0, 1]: acos(cos(theta)) in degrees - 90,
\* in thousandths of a degree
computeLatitude(theta, phi) == (theta * 180000) \div HalfTurn - 90000

\* BiomeManager.getBiome
getBiome(theta, phi, baseHeight) ==
    LET latitude == computeLatitude(theta, phi) IN
    IF baseHeight > 150 THEN "highland"
    ELSE IF baseHeight < -50 THEN "rift"
    ELSE IF Abs(latitude) > 60000 THEN "polar"
    ELSE IF Abs(latitude) < 30000 THEN "equatorial"
    ELSE "temperate"

canApplyWith(g, existingFeatures) ==
    \A k \in 1..Len(existingFeatures) : existingFeatures[k] \in CompatibleFeatures(g)

\* canApplyWithout testing the allow-list instead of the prohibited list: not what the code does
canApplyWithoutAllowed(g, existingFeatures) ==
    ~ \E k \in 1..Len(existingFeatures) : existingFeatures[k] \in CompatibleFeatures(g)

canApplyWithout(g, existingFeatures) ==
    ~ \E k \in 1..Len(existingFeatures) : existingFeatures[k] \in ProhibitedFeatures(g)

-----------------------------------------------------------------------------
(* TerrainTemperatureManager.  Temperatures in thousandths of a degree.    *)

\* config.featureTemps[label] || 0, in degrees
FeatureTemps(label) ==
    CASE label = "polar" -> -20 [] label = "equatorial" -> 25 [] label = "temperate" -> 15
      [] label = "highland" -> -5 [] label = "rift" -> 5 [] label = "crater" -> 0
      [] label = "volcano" -> 50 [] label = "tectonic_plate" -> 10 [] label = "magnetic_anomaly" -> 5
      [] label = "valley" -> 0 [] label = "river" -> -5 [] label = "tributary" -> -5
      [] label = "mouth" -> -5 [] label = "foothill" -> 0 [] label = "sand_dune" -> 35
      [] label = "glacial" -> -30 [] label = "coral_reef" -> 20 [] label = "karst" -> 10
      [] label = "lava_flow" -> 40 [] label = "wetland" -> 20 [] label = "permafrost" -> -25
      [] label = "desert_pavement" -> 30 [] label = "oasis" -> 25 [] label = "fumarole" -> 60
      [] label = "underwater" -> 0
      [] OTHER -> 0

\* computeSolarIncidence with incidentVector = [1, 0, 0]: sin(theta) cos(phi), thousandths
computeSolarIncidence(theta, phi) == (Sin(theta) * Cos(phi)) \div 1000

getTemperature(height, features, theta, phi) ==
    LET baseTemp == 15000 + (IF Len(features) > 0 THEN 1000 * FeatureTemps(features[1]) ELSE 0)
        altitudeTemp == (-13 * height) \div 2000
        latitudeTemp == -(Abs(computeLatitude(theta, phi)) \div 2)
        solarTemp == computeSolarIncidence(theta, phi) * 10
        temp == baseTemp + altitudeTemp + latitudeTemp + solarTemp
    IN IF Includes(features, "underwater") THEN temp - 20000 ELSE temp

-----------------------------------------------------------------------------
(* Feature generators: applyFeature.  The result records whether the call  *)
(* threw, the returned heightAdjustment and featureLabel, and the          *)
(* existingFeatures array as the call leaves it.                           *)

NoFeature(existingFeatures) ==
    [threw |-> FALSE, heightAdjustment |-> 0, featureLabel |-> Null, features |-> existingFeatures]

Feature(adj, label, existingFeatures) ==
    [threw |-> FALSE, heightAdjustment |-> adj, featureLabel |-> label, features |-> existingFeatures]

Thrown(existingFeatures) ==
    [threw |-> TRUE, heightAdjustment |-> 0, featureLabel |-> Null, features |-> existingFeatures]

\* threshold = t / modifier, thousandths
Threshold(t, modifier) == (t * 1000) \div modifier

\* existingFeatures.unshift(x): not what the code does
PushFront(s, x) == IF Includes(s, x) THEN s ELSE <<x>> \o s

\* if (!existingFeatures.includes(x)) existingFeatures.push(x)
PushNew(s, x) == IF Includes(s, x) THEN s ELSE Append(s, x)

\* x * (cond ? num/10 : 1.0)
BiomeBoost(x, cond, num) == IF cond THEN (x * num) \div 10 ELSE x

ValleyAndRiverBody(theta, phi, currentHeight, existingFeatures, biome) ==
    LET valleyModifier == getFeatureModifier(biome, "valley")
        riverModifier == getFeatureModifier(biome, "river")
        valleyNoise == FeatureNoise(theta, phi, 30, 5000)
        valleyThreshold == Threshold(200, valleyModifier)
        riverThreshold == Threshold(100, riverModifier)
        branch == FeatureNoise(theta, phi, 100, 6000) > 800
    IN IF currentHeight > (BaseAmplitude * 3) \div 2 /\ Abs(valleyNoise) < valleyThreshold
       THEN Feature(-(BaseAmplitude \div 2), "valley",
                IF valleyNoise > 0 /\ valleyNoise < riverThreshold
                THEN LET withRiver == PushNew(existingFeatures, "river")
                     IN IF branch THEN PushNew(withRiver, "tributary") ELSE withRiver
                ELSE existingFeatures)
       ELSE IF currentHeight < -(BaseAmplitude \div 2)
                 /\ Abs(valleyNoise) < (valleyThreshold * 3) \div 4
       THEN Feature(-((BaseAmplitude * 3) \div 10), "valley",
                IF valleyNoise < 0 /\ valleyNoise > -riverThreshold
                THEN LET withRiver == PushNew(existingFeatures, "river")
                     IN IF branch THEN PushNew(withRiver, "mouth") ELSE withRiver
                ELSE existingFeatures)
       ELSE NoFeature(existingFeatures)

VastPlainsBody(theta, phi, currentHeight, existingFeatures, biome) ==
    LET modifier == getFeatureModifier(biome, "plain")
        plainLocationNoise == NoiseAt(MicroRad(theta) \div 2, MicroRad(phi) \div 2, 7000)
        rumble == FeatureNoise(theta, phi, 3, 8000)
        rumblyness == (((rumble * rumble) \div 1000) * 80) \div 1000
        plainNoise == NoiseAt((MicroRad(theta) \div 1000) * rumblyness * 50,
                              (MicroRad(phi) \div 1000) * rumblyness * 50, 9000)
        plainBaseHeight == -20 + (plainLocationNoise * 80) \div 1000
        plainHeight == plainBaseHeight + (plainNoise * rumblyness) \div 1000
        distanceToPlainCenter == Abs(plainLocationNoise - 400) * 5
        blendFactor == IF 1000 - distanceToPlainCenter > 0 THEN 1000 - distanceToPlainCenter ELSE 0
    IN IF plainLocationNoise > Threshold(200, modifier) /\ plainLocationNoise < Threshold(600, modifier)
       THEN Feature(((plainHeight - currentHeight) * blendFactor) \div 1000, "plain", existingFeatures)
       ELSE NoFeature(existingFeatures)

\* the part of applyFeature after the compatibility check and the modifier lookup
FeatureBody(g, theta, phi, currentHeight, initialTemperature, existingFeatures, biome) ==
    LET modifier == getFeatureModifier(biome, LabelOf(g))
        A == BaseAmplitude
        h == currentHeight
        t == initialTemperature
        latitude == computeLatitude(theta, phi)
        no == NoFeature(existingFeatures)
    IN CASE g = "CraterGenerator" ->
            LET n == FeatureNoise(theta, phi, 150, 3000)  th == Threshold(950, modifier)
            IN IF n > th THEN Feature(-((A * 40 * (n - th)) \div 1000), "crater", existingFeatures) ELSE no
         [] g = "VolcanoGenerator" ->
            LET n == FeatureNoise(theta, phi, 100, 1000)  th == Threshold(900, modifier)
            IN IF n > th /\ t > 30000
               THEN Feature(BiomeBoost((A * (n - th) * 10) \div 1000, biome = "highland", 15),
                            "volcano", existingFeatures)
               ELSE no
         [] g = "TectonicPlateGenerator" ->
            LET n == FeatureNoise(theta, phi, 50, 2000)  th == Threshold(100, modifier)
            IN IF Abs(n) < th
               THEN Feature(BiomeBoost((A * n * 2) \div 1000, biome = "rift", 13),
                            "tectonic_plate", existingFeatures)
               ELSE no
         [] g = "VastPlainsGenerator" -> VastPlainsBody(theta, phi, h, existingFeatures, biome)
         [] g = "MagneticAnomalyGenerator" ->
            LET n == FeatureNoise(theta, phi, 80, 4000)
            IN IF n > 900
               THEN Feature((A * (n - 900) * 5) \div 1000, "magnetic_anomaly", existingFeatures)
               ELSE no
         [] g = "LavaFlowGenerator" ->
            LET n == FeatureNoise(theta, phi, 70, 13000)  th == Threshold(850, modifier)
            IN IF h > 0 /\ n > th /\ t > 25000
               THEN Feature((A * 3 * (n - th)) \div 10000, "lava_flow", existingFeatures)
               ELSE no
         [] g = "DesertPavementGenerator" ->
            LET n == FeatureNoise(theta, phi, 40, 16000)  th == Threshold(900, modifier)
            IN IF h > -((A * 3) \div 10) /\ h < (A * 3) \div 10 /\ n > th /\ t > 25000
               THEN Feature(A \div 20, "desert_pavement", existingFeatures)
               ELSE no
         [] g = "SandDuneGenerator" ->
            LET n == FeatureNoise(theta, phi, 40, 9000)  th == Threshold(600, modifier)
            IN IF h > -(A \div 5) /\ h < A \div 5 /\ n > th /\ t > 20000
               THEN Feature(BiomeBoost((A * 4 * Sin(RoundDiv(n * HalfTurn, 1000))) \div 10000,
                                       biome = "equatorial", 12),
                            "sand_dune", existingFeatures)
               ELSE no
         [] g = "GlacialFeatureGenerator" ->
            LET n == FeatureNoise(theta, phi, 60, 10000)  th == Threshold(700, modifier)
            IN IF Abs(latitude) > 70000 /\ n > th /\ t < -10000
               THEN Feature(-BiomeBoost((A * 6 * (n - th)) \div 10000, biome = "polar", 12),
                            "glacial", existingFeatures)
               ELSE no
         [] g = "KarstTopographyGenerator" ->
            LET n == FeatureNoise(theta, phi, 50, 12000)  th == Threshold(900, modifier)
            IN IF h > A \div 2 /\ n > th
               THEN Feature(-((A * (n - th) * 5) \div 1000), "karst", existingFeatures)
               ELSE no
         [] g = "WetlandGenerator" ->
            LET n == FeatureNoise(theta, phi, 30, 14000)  th == Threshold(700, modifier)
            IN IF h > -(A \div 10) /\ h < A \div 10 /\ n > th /\ t > 10000
               THEN Feature(-(A \div 20), "wetland", existingFeatures)
               ELSE no
         [] g = "PermafrostGenerator" ->
            LET n == FeatureNoise(theta, phi, 60, 15000)  th == Threshold(800, modifier)
            IN IF Abs(latitude) > 60000 /\ n > th /\ t < -5000
               THEN Feature(BiomeBoost((A * 2 * (n - th)) \div 10000, biome = "polar", 11),
                            "permafrost", existingFeatures)
               ELSE no
         [] g = "OasisGenerator" ->
            LET n == FeatureNoise(theta, phi, 50, 17000)  th == Threshold(950, modifier)
            IN IF h > -(A \div 5) /\ h < A \div 5 /\ n > th /\ t > 20000
               THEN Feature(-((A * 3 * (n - th)) \div 10000), "oasis", existingFeatures)
               ELSE no
         [] g = "FoothillGenerator" ->
            LET n == FeatureNoise(theta, phi, 70, 8000)  th == Threshold(700, modifier)
            IN IF h > (A * 12) \div 10 /\ h < (A * 15) \div 10 /\ n > th
               THEN Feature(BiomeBoost((A * 3 * n) \div 10000, biome = "highland", 13),
                            "foothill", existingFeatures)
               ELSE no
         [] g = "ValleyAndRiverGenerator" -> ValleyAndRiverBody(theta, phi, h, existingFeatures, biome)
         [] g = "CoralReefGenerator" ->
            LET n == FeatureNoise(theta, phi, 80, 11000)  th == Threshold(800, modifier)
            IN IF h < WaterLevel /\ h > -A /\ n > th /\ t > 15000
               THEN Feature(BiomeBoost((A * 2 * (n - th)) \div 10000, biome = "equatorial", 12),
                            "coral_reef", existingFeatures)
               ELSE no
         [] g = "FumaroleGenerator" ->
            LET n == FeatureNoise(theta, phi, 90, 18000)  th == Threshold(900, modifier)
            IN IF h > A /\ n > th /\ t > 40000
               THEN Feature((A * 4 * (n - th)) \div 10000, "fumarole", existingFeatures)
               ELSE no

\* the generators whose applyFeature reads biomeManager.getFeatureModifier
\* (MagneticAnomalyGenerator takes no biome argument)
ReadsModifier(g) == g # "MagneticAnomalyGenerator"

\* applyFeature guarded by canApplyWithout alone
CompatibleWithoutOnly(g, existingFeatures) == canApplyWithout(g, existingFeatures)

\* the compatibility check that opens every applyFeature
Compatible(g, existingFeatures) ==
    canApplyWith(g, existingFeatures) /\ canApplyWithout(g, existingFeatures)

\* generator.applyFeature(theta, phi, currentHeight, initialTemperature, existingFeatures, biome)
applyFeature(g, theta, phi, currentHeight, initialTemperature, existingFeatures, biome) ==
    IF ~ Compatible(g, existingFeatures) THEN NoFeature(existingFeatures)
    ELSE IF ReadsModifier(g) /\ getFeatureModifierThrows(biome) THEN Thrown(existingFeatures)
    ELSE FeatureBody(g, theta, phi, currentHeight, initialTemperature, existingFeatures, biome)

-----------------------------------------------------------------------------
(* TerrainGenerator                                                        *)

\* this.LOD = [1200, ...unique maxDistance values, descending]
LOD == <<1200, 600, 200, 100>>

\* fg.lod = this.LOD.indexOf(fg.maxDistance)  (0-based)
LodOf(g) == (CHOOSE k \in 1..Len(LOD) : LOD[k] = MaxDistanceOf(g)) - 1

\* if (featureLabel && !features.includes(featureLabel)) features.push(featureLabel),
\* the caller's push after applyFeature returned
FeaturesWithLabel(features, featureLabel) ==
    IF featureLabel # Null /\ ~ Includes(features, featureLabel)
    THEN Append(features, featureLabel)
    ELSE features

\* the class names in the order of String.prototype.localeCompare
SortedGenOrder ==
    << "CoralReefGenerator", "CraterGenerator", "DesertPavementGenerator", "FoothillGenerator",
       "FumaroleGenerator", "GlacialFeatureGenerator", "KarstTopographyGenerator",
       "LavaFlowGenerator", "MagneticAnomalyGenerator", "OasisGenerator", "PermafrostGenerator",
       "SandDuneGenerator", "TectonicPlateGenerator", "ValleyAndRiverGenerator",
       "VastPlainsGenerator", "VolcanoGenerator", "WetlandGenerator" >>

\* this.biome and this.heights are never assigned on the TerrainGenerator
ThisBiome == Undefined
ThisHeightsDefined == FALSE

RECURSIVE RequiredLodFrom(_, _)
RequiredLodFrom(i, distance) ==
    IF i >= Len(LOD) THEN 0
    ELSE IF distance <= LOD[i + 1] THEN i
    ELSE RequiredLodFrom(i + 1, distance)

getRequiredLod(distance) == RequiredLodFrom(0, distance)

\* the filter of applyFeaturesForLod
Applicable(g, lod, on) ==
    on[g] /\ lod = LodOf(g) /\ LOD[lod + 1] <= MaxDistanceOf(g)

\* a comparison that returns 0 for every pair: not what the code does
NoNameBefore(a, b) == FALSE

\* a.generator.constructor.name.localeCompare(b.generator.constructor.name) < 0
NameBefore(a, b) ==
    (CHOOSE k \in 1..Len(SortedGenOrder) : SortedGenOrder[k] = a)
        < (CHOOSE k \in 1..Len(SortedGenOrder) : SortedGenOrder[k] = b)

\* Array.prototype.sort with the comparison by class name (a stable sort)
RECURSIVE SortByName(_)
SortByName(gens) ==
    IF gens = <<>> THEN <<>>
    ELSE LET m == CHOOSE k \in 1..Len(gens) :
                      /\ \A j \in 1..Len(gens) : ~ NameBefore(gens[j], gens[k])
                      /\ \A j \in 1..(k - 1) : NameBefore(gens[k], gens[j])
         IN <<gens[m]>> \o SortByName(SubSeq(gens, 1, m - 1) \o SubSeq(gens, m + 1, Len(gens)))

RECURSIVE ApplyGenerators(_, _, _, _, _, _, _)

\* the body of the for loop after generator.applyFeature returned r; evaluated lists
\* the generators whose applyFeature has been called, in the order of the calls
AfterApplyFeature(r, rest, theta, phi, currentHeight, temperature, evaluated) ==
    IF r.threw THEN [threw |-> TRUE, features |-> r.features, evaluated |-> evaluated]
    ELSE IF r.featureLabel # Null /\ ~ Includes(r.features, r.featureLabel)
    THEN IF ThisHeightsDefined
         THEN ApplyGenerators(rest, theta, phi, currentHeight, temperature,
                              Append(r.features, r.featureLabel), evaluated)
         ELSE [threw |-> TRUE, features |-> Append(r.features, r.featureLabel),
               evaluated |-> evaluated]
    ELSE ApplyGenerators(rest, theta, phi, currentHeight, temperature, r.features, evaluated)

ApplyGenerators(gens, theta, phi, currentHeight, temperature, features, evaluated) ==
    IF gens = <<>> THEN [threw |-> FALSE, features |-> features, evaluated |-> evaluated]
    ELSE AfterApplyFeature(
             applyFeature(Head(gens), theta, phi, currentHeight, temperature, features, ThisBiome),
             Tail(gens), theta, phi, currentHeight, temperature, Append(evaluated, Head(gens)))

\* featureGenerators is the registration list of the constructor
applyFeaturesForLod(featureGenerators, theta, phi, lod, currentHeight, temperature, existingFeatures, on) ==
    LET sortedGenerators ==
            SortByName(SelectSeq(featureGenerators, LAMBDA g : Applicable(g, lod, on)))
    IN ApplyGenerators(sortedGenerators, theta, phi, currentHeight, temperature,
                       existingFeatures, <<>>)

\* coordinate * frequency, both in millionths
Scaled(angle, frequency) == ((MicroRad(angle) \div 1000) * frequency) \div 1000

RECURSIVE Octaves(_, _, _, _, _, _, _)
Octaves(i, n, theta, phi, frequency, amplitude, offset) ==
    IF i >= n THEN 0
    ELSE (NoiseAt(Scaled(theta, frequency), Scaled(phi, frequency), offset) * amplitude) \div 1000
         + Octaves(i + 1, n, theta, phi, frequency * 2, amplitude \div 2, offset)

computeBaseHeight(theta, phi) ==
    LET params == BiomeParams(getBiome(theta, phi, 0))
    IN Octaves(0, params.octaves, theta, phi,
               (BaseFrequency * params.frequencyScale) \div 10,
               (BaseAmplitude * params.amplitudeScale) \div 10, 0)
       + Octaves(0, OceanOctaves, theta, phi,
                 (OceanFrequency * params.frequencyScale) \div 10,
                 (OceanAmplitude * params.amplitudeScale) \div 10, 1000)

\* scale = 1 / 2^distance, in millionths
DetailScale(distance) == IF distance >= 20 THEN 0 ELSE 1000000 \div (2 ^ distance)

DetailOctaves(params, theta, phi, distance) ==
    Octaves(0, params.octaves, theta, phi,
            (((DetailFrequency * params.frequencyScale) \div 10) * DetailScale(distance)) \div 1000000,
            (DetailAmplitude * params.amplitudeScale) \div 10, 0)

computeDetail(theta, phi, distance) ==
    DetailOctaves(BiomeParams(getBiome(theta, phi, computeBaseHeight(theta, phi))), theta, phi, distance)

\* config.featureAges[label] || config.featureAges.default, in tenths
FeatureAges(label) ==
    CASE label \in {"crater", "permafrost"} -> 8
      [] label \in {"volcano", "karst", "desert_pavement"} -> 6
      [] label \in {"tectonic_plate", "glacial"} -> 7
      [] label \in {"magnetic_anomaly", "sand_dune", "fumarole"} -> 4
      [] label \in {"valley", "foothill", "lava_flow"} -> 5
      [] label \in {"river", "tributary", "mouth", "coral_reef", "oasis"} -> 3
      [] label = "wetland" -> 2
      [] OTHER -> 5

computeFeatureAge(theta, phi, features) ==
    LET baseAge == Abs(FeatureNoise(theta, phi, 40, 7000))
        featureAgeScale == IF Len(features) > 0 THEN FeatureAges(features[1]) ELSE 5
    IN (baseAge * featureAgeScale) \div 10

\* buckets of ten radians, Math.round(x / 10): not what the code does
getCoarseKeyTens(theta, phi) ==
    << (MicroRad(theta) + 5000000) \div 10000000, (MicroRad(phi) + 5000000) \div 10000000 >>

\* Math.round(x * 10) for x in millionths
getCoarseKey(theta, phi) ==
    << (MicroRad(theta) + 50000) \div 100000, (MicroRad(phi) + 50000) \div 100000 >>

\* the record getHeight starts from when the bucket is not in featureMap
FreshNodeData ==
    [heights |-> [k \in 1..Len(LOD) |-> 0], features |-> [k \in 1..Len(LOD) |-> <<>>],
     temperature |-> 0, biome |-> "", lod |-> -1, height |-> 0]

\* nodeData.heights.slice(0, lod).reduce(...)
HeightBelow(heights, lod) == SumSeq(SubSeq(heights, 1, lod))

\* lod 0 only: heights[0] = computeBaseHeight(...), biome = getBiome(..., heights[0], ...)
SetBase(nd, theta, phi, base) ==
    [nd EXCEPT !.heights[1] = base, !.biome = getBiome(theta, phi, base)]

\* currentHeight handed to the generators of tier lod
TierHeight(nd, lod) == IF lod = 0 THEN nd.heights[1] ELSE HeightBelow(nd.heights, lod)

\* the rest of the iteration once applyFeaturesForLod returned the tier's features
TierAfterFeatures(nd, lod, theta, phi, features) ==
    [nd EXCEPT !.features = features,
               !.temperature = getTemperature(HeightBelow(nd.heights, lod), Flat(features), theta, phi),
               !.heights[lod + 1] =
                   (@ * (1000 - (ErosionFactor * computeFeatureAge(theta, phi, Flat(features))) \div 1000))
                       \div 1000
                   + (IF lod > 0 THEN computeDetail(theta, phi, LOD[lod + 1]) ELSE 0)]

TierAfterApply(nd, lod, theta, phi, applied) ==
    IF applied.threw THEN [threw |-> TRUE, nd |-> nd]
    ELSE [threw |-> FALSE,
          nd |-> TierAfterFeatures(nd, lod, theta, phi,
                                   [nd.features EXCEPT ![lod + 1] = applied.features])]

TierWithBase(nd, lod, theta, phi, on) ==
    TierAfterApply(nd, lod, theta, phi,
        applyFeaturesForLod(GenOrder, theta, phi, lod, TierHeight(nd, lod),
                            getTemperature(TierHeight(nd, lod), Flat(nd.features), theta, phi),
                            nd.features[lod + 1], on))

\* one iteration of the tier loop of getHeight, for tier lod (0-based)
ComputeTier(nd, lod, theta, phi, on) ==
    TierWithBase(IF lod = 0 THEN SetBase(nd, theta, phi, computeBaseHeight(theta, phi)) ELSE nd,
                 lod, theta, phi, on)

RECURSIVE ComputeTiers(_, _, _, _, _, _)

NextTier(r, lod, requiredLod, theta, phi, on) ==
    IF r.threw THEN r ELSE ComputeTiers(r.nd, lod + 1, requiredLod, theta, phi, on)

ComputeTiers(nd, lod, requiredLod, theta, phi, on) ==
    IF lod > requiredLod THEN [threw |-> FALSE, nd |-> [nd EXCEPT !.lod = requiredLod]]
    ELSE NextTier(ComputeTier(nd, lod, theta, phi, on), lod, requiredLod, theta, phi, on)

\* nodeData.features[nodeData.lod].push('underwater') without the includes test
PushUnderwaterAgain(features, lod) == [features EXCEPT ![lod + 1] = Append(@, "underwater")]

\* if (!nodeData.features.flat().includes('underwater')) nodeData.features[nodeData.lod].push('underwater')
PushUnderwater(features, lod) ==
    IF Includes(Flat(features), "underwater") THEN features
    ELSE [features EXCEPT ![lod + 1] = Append(@, "underwater")]

MapSet(fm, key, nd) == [k \in (DOMAIN fm) \cup {key} |-> IF k = key THEN nd ELSE fm[k]]

EmptyMap == [k \in {} |-> FreshNodeData]

NoResult == [height |-> 0, features |-> <<>>, temperature |-> 0, biome |-> ""]

\* the blend below the water level
WaterBlended(sum) ==
    IF sum < WaterLevel THEN ((1000 - WaterBlend) * sum + WaterBlend * WaterLevel) \div 1000 ELSE sum

\* the tail of getHeight: water blend, 'underwater' label, featureMap.set, return
StoreAndReturn(fm, coarseKey, nd) ==
    [fm |-> MapSet(fm, coarseKey, nd), threw |-> FALSE,
     ret |-> [height |-> nd.height, features |-> Flat(nd.features),
              temperature |-> nd.temperature, biome |-> nd.biome]]

FinishHeight(fm, coarseKey, cached, r) ==
    IF r.threw
    THEN [fm |-> IF cached THEN MapSet(fm, coarseKey, r.nd) ELSE fm, threw |-> TRUE, ret |-> NoResult]
    ELSE StoreAndReturn(fm, coarseKey,
             [r.nd EXCEPT !.features = IF SumSeq(r.nd.heights) < WaterLevel
                                       THEN PushUnderwater(@, r.nd.lod) ELSE @,
                          !.height = WaterBlended(SumSeq(r.nd.heights))])

TiersFrom(nd0, requiredLod, theta, phi, on) ==
    IF requiredLod > nd0.lod
    THEN ComputeTiers(nd0, nd0.lod + 1, requiredLod, theta, phi, on)
    ELSE [threw |-> FALSE, nd |-> nd0]

\* getHeight(theta, phi, distance): the featureMap it leaves, whether it threw, what it returned
getHeight(fm, theta, phi, distance, on) ==
    FinishHeight(fm, getCoarseKey(theta, phi), getCoarseKey(theta, phi) \in DOMAIN fm,
        TiersFrom(IF getCoarseKey(theta, phi) \in DOMAIN fm THEN fm[getCoarseKey(theta, phi)]
                  ELSE FreshNodeData,
                  getRequiredLod(distance), theta, phi, on))

-----------------------------------------------------------------------------
(* QuadtreeNode.  A node is <<level, i, j>>: the i-th theta band and j-th  *)
(* phi band at that level.  Bounds of a node are counted in cells of the   *)
(* finest level, centres in half cells.                                    *)

MaxDepth == 4

Root == <<0, 0, 0>>

Cell(level) == 2 ^ (MaxDepth - level)

thetaMin(n) == n[2] * Cell(n[1])
thetaMax(n) == (n[2] + 1) * Cell(n[1])
phiMin(n) == n[3] * Cell(n[1])
phiMax(n) == (n[3] + 1) * Cell(n[1])

\* the ne child made over the range of the nw child: not what the code does
ChildrenTwiceWest(n) ==
    << <<n[1] + 1, 2 * n[2], 2 * n[3]>>, <<n[1] + 1, 2 * n[2], 2 * n[3]>>,
       <<n[1] + 1, 2 * n[2] + 1, 2 * n[3]>>, <<n[1] + 1, 2 * n[2] + 1, 2 * n[3] + 1>> >>

\* children in insertion order nw, ne, sw, se
Children(n) ==
    << <<n[1] + 1, 2 * n[2], 2 * n[3]>>, <<n[1] + 1, 2 * n[2], 2 * n[3] + 1>>,
       <<n[1] + 1, 2 * n[2] + 1, 2 * n[3]>>, <<n[1] + 1, 2 * n[2] + 1, 2 * n[3] + 1>> >>

\* getCenter, in units of pi / HalfTurn
getCenter(n) ==
    [theta |-> ((2 * n[2] + 1) * Cell(n[1]) * HalfTurn) \div (2 * 2 ^ MaxDepth),
     phi |-> ((2 * n[3] + 1) * Cell(n[1]) * 2 * HalfTurn) \div (2 * 2 ^ MaxDepth)]

isLeaf(n, int) == n \notin int

\* subdivide: if (!this.isLeaf()) return; otherwise the node gets its four children
subdivide(n, int) == IF isLeaf(n, int) THEN int \cup {n} ELSE int

isAdjacent(a, b) ==
    LET shareTheta == (thetaMin(a) = thetaMax(b) \/ thetaMax(a) = thetaMin(b))
                      /\ ~ (phiMax(a) < phiMin(b) \/ phiMin(a) > phiMax(b))
        sharePhi == (phiMin(a) = phiMax(b) \/ phiMax(a) = phiMin(b))
                    /\ ~ (thetaMax(a) < thetaMin(b) \/ thetaMin(a) > thetaMax(b))
    IN shareTheta \/ sharePhi

RECURSIVE findAllLeaves(_, _)
findAllLeaves(n, int) ==
    IF isLeaf(n, int) THEN <<n>>
    ELSE findAllLeaves(Children(n)[1], int) \o findAllLeaves(Children(n)[2], int)
         \o findAllLeaves(Children(n)[3], int) \o findAllLeaves(Children(n)[4], int)

getAdjacentNodes(n, leaves) == SelectSeq(leaves, LAMBDA leaf : leaf # n /\ isAdjacent(n, leaf))

\* the first loop of balanceTree: the leaves with a neighbour more than one level coarser
InitialQueue(int) ==
    LET leaves == findAllLeaves(Root, int)
    IN SelectSeq(leaves, LAMBDA leaf :
           \E k \in 1..Len(leaves) :
               /\ leaves[k] # leaf
               /\ isAdjacent(leaf, leaves[k])
               /\ leaf[1] > leaves[k][1] + 1)

\* the node pushed back onto the queue and no neighbour subdivided: not what the code does
BalanceNeighborsRequeue(node, neighbors, int, q, frc) ==
    [internal |-> int, queue |-> Append(q, node), forced |-> frc]

\* the for loop over the neighbours of one dequeued node
RECURSIVE BalanceNeighbors(_, _, _, _, _)
BalanceNeighbors(node, neighbors, int, q, frc) ==
    IF neighbors = <<>> THEN [internal |-> int, queue |-> q, forced |-> frc]
    ELSE LET neighbor == Head(neighbors)
         IN IF node[1] > neighbor[1] + 1
            THEN LET int1 == int \cup {neighbor}
                 IN BalanceNeighbors(node, Tail(neighbors), int1,
                                     q \o getAdjacentNodes(neighbor, findAllLeaves(Root, int1)),
                                     frc \cup {neighbor})
            ELSE BalanceNeighbors(node, Tail(neighbors), int, q, frc)

-----------------------------------------------------------------------------
(* QuadTreeManager on the EllipsoidMesh with semi-axes a = b = c.          *)
(* Positions and distances in hundredths of a length unit.                 *)

NoBase == [isNull |-> TRUE, height |-> 0]

\* a subdivide that asks the terrain whatever baseHeight holds: not what the code does
baseHeightIgnored(baseHeight) == TRUE

\* this.baseHeight === null, the test of subdivide before terrain.getHeight
baseHeightUnset(baseHeight) == baseHeight.isNull

RECURSIVE IsqrtIn(_, _, _)
IsqrtIn(lo, hi, n) ==
    IF lo >= hi THEN lo
    ELSE LET mid == (lo + hi + 1) \div 2
         IN IF mid * mid <= n THEN IsqrtIn(mid, hi, n) ELSE IsqrtIn(lo, mid - 1, n)

\* floor of the square root
Isqrt(n) == IsqrtIn(0, 30000, n)

\* mapToBaseEllipsoid(theta, phi) scaled by (1 + coarseHeight)
ScaledPos(theta, phi, coarseHeight) ==
    LET x == (SemiAxis * Sin(theta) * Cos(phi)) \div 1000
        y == (SemiAxis * Sin(theta) * Sin(phi)) \div 1000
        z == SemiAxis * Cos(theta)
    IN << (x * (1000 + coarseHeight)) \div 10000, (y * (1000 + coarseHeight)) \div 10000,
          (z * (1000 + coarseHeight)) \div 10000 >>

\* baseHeightData?.height || 0, then scaledPos.distanceTo(cameraPos)
calculateDistanceToCamera(theta, phi, cameraPos, baseHeightData) ==
    LET coarseHeight == IF baseHeightData.isNull THEN 0 ELSE baseHeightData.height
        p == ScaledPos(theta, phi, coarseHeight)
        dx == p[1] - 100 * cameraPos[1]
        dy == p[2] - 100 * cameraPos[2]
        dz == p[3] - 100 * cameraPos[3]
    IN Isqrt(dx * dx + dy * dy + dz * dz)

RECURSIVE DesiredLevelFrom(_, _, _)
DesiredLevelFrom(i, distance, lods) ==
    IF i >= Len(lods) THEN 0
    ELSE IF distance < 100 * lods[i + 1] THEN Len(lods) - i
    ELSE DesiredLevelFrom(i + 1, distance, lods)

\* the for loop of getDesiredLevel started at index 1
getDesiredLevelFromSecond(distance, lods) == DesiredLevelFrom(1, distance, lods)

\* getDesiredLevel(distance) with maxLevel = lodDistances.length
getDesiredLevel(distance, lods) == DesiredLevelFrom(0, distance, lods)

\* the test of the descent without the cap at maxLevel: not what the code does
ShouldSubdivideUncapped(level, desiredLevel, maxLevel) == level <= desiredLevel

\* node.level <= desiredLevel && node.level < this.maxLevel
ShouldSubdivide(level, desiredLevel, maxLevel) == level <= desiredLevel /\ level < maxLevel

\* _buildTreeRecursive: the nodes it subdivides, and <<node, distance, desiredLevel>> of each visit;
\* base is the baseHeight of the node, childBase the one its children inherit
RECURSIVE buildTreeRecursive(_, _, _, _, _)
buildTreeRecursive(n, cameraPos, base, childBase, lods) ==
    LET c == getCenter(n)
        distance == calculateDistanceToCamera(c.theta, c.phi, cameraPos, base)
        desiredLevel == getDesiredLevel(distance, lods)
        visit == {<<n, distance, desiredLevel>>}
    IN IF ShouldSubdivide(n[1], desiredLevel, Len(lods))
       THEN LET k1 == buildTreeRecursive(Children(n)[1], cameraPos, childBase, childBase, lods)
                k2 == buildTreeRecursive(Children(n)[2], cameraPos, childBase, childBase, lods)
                k3 == buildTreeRecursive(Children(n)[3], cameraPos, childBase, childBase, lods)
                k4 == buildTreeRecursive(Children(n)[4], cameraPos, childBase, childBase, lods)
            IN [internal |-> {n} \cup k1.internal \cup k2.internal \cup k3.internal \cup k4.internal,
                visits |-> visit \cup k1.visits \cup k2.visits \cup k3.visits \cup k4.visits]
       ELSE [internal |-> {}, visits |-> visit]

-----------------------------------------------------------------------------
(* TerrainColorManager.  Colours are RGB triples in 0..255, blend factors  *)
(* in thousandths.                                                         *)

\* defineColors
ColorDefinitions ==
    [polar |-> <<200, 220, 255>>, equatorial |-> <<100, 150, 50>>, temperate |-> <<150, 180, 100>>,
     highland |-> <<120, 100, 80>>, rift |-> <<80, 60, 40>>, crater |-> <<50, 50, 50>>,
     volcano |-> <<90, 70, 60>>, tectonic_plate |-> <<110, 90, 70>>, plain |-> <<180, 160, 120>>,
     magnetic_anomaly |-> <<180, 140, 200>>, valley |-> <<90, 110, 70>>, river |-> <<70, 90, 120>>,
     tributary |-> <<80, 100, 130>>, mouth |-> <<60, 80, 110>>, foothill |-> <<130, 120, 90>>,
     sand_dune |-> <<210, 180, 100>>, glacial |-> <<220, 230, 255>>, coral_reef |-> <<200, 120, 150>>,
     karst |-> <<140, 130, 110>>, lava_flow |-> <<60, 50, 50>>, wetland |-> <<90, 120, 90>>,
     permafrost |-> <<160, 140, 110>>, desert_pavement |-> <<100, 90, 80>>, oasis |-> <<50, 150, 100>>,
     fumarole |-> <<220, 180, 100>>, underwater |-> <<0, 0, 0>>]

\* this.colorDefinitions[feature] || fallback ([0, 0, 0] is an array, hence truthy)
ColorOf(feature, fallback) ==
    IF feature \in DOMAIN ColorDefinitions THEN ColorDefinitions[feature] ELSE fallback

blendColors(color1, color2, factor) ==
    [i \in 1..3 |-> RoundDiv(color1[i] * (1000 - factor) + color2[i] * factor, 1000)]

computeBlendFactor(theta, phi, primary, secondary) ==
    LET normalized == (FeatureNoise(theta, phi, 50, 19000) + 1000) \div 2
    IN IF primary = "valley" /\ secondary = "river" THEN (IF normalized < 800 THEN normalized ELSE 800)
       ELSE IF primary = "sand_dune" /\ secondary = "oasis"
       THEN (IF normalized < 600 THEN normalized ELSE 600)
       ELSE (normalized * 4) \div 10

\* the colour of the first feature, blended with that of the second
FeatureColor(features, theta, phi) ==
    IF Len(features) = 0 THEN <<150, 150, 150>>
    ELSE IF Len(features) = 1 THEN ColorOf(features[1], <<150, 150, 150>>)
    ELSE blendColors(ColorOf(features[1], <<150, 150, 150>>),
                     ColorOf(features[2], ColorOf(features[1], <<150, 150, 150>>)),
                     computeBlendFactor(theta, phi, features[1], features[2]))

\* Math.min(1, Math.max(0, (height + baseAmplitude) / (2 * baseAmplitude))), thousandths
HeightFactor(height) ==
    LET f == ((height + BaseAmplitude) * 1000) \div (2 * BaseAmplitude)
    IN IF f < 0 THEN 0 ELSE IF f > 1000 THEN 1000 ELSE f

HeightShaded(color, height) ==
    [i \in 1..3 |-> RoundDiv(color[i] * (800 + (200 * HeightFactor(height)) \div 1000), 1000)]

\* tempFactor = (temperature + 50) / 100
TemperatureTinted(color, temperature) ==
    IF temperature < 0
    THEN blendColors(color, <<200, 220, 255>>, Abs((temperature + 50000) \div 100))
    ELSE IF temperature > 30000
    THEN blendColors(color, <<255, 150, 100>>, (temperature + 50000) \div 100)
    ELSE color

Snowed(color, height, theta, phi) ==
    IF height * 10 > BaseAmplitude * 18 /\ Abs(computeLatitude(theta, phi)) > 50000
    THEN blendColors(color, <<255, 255, 255>>, 500)
    ELSE color

Submerged(color, features) ==
    IF Includes(features, "underwater")
    THEN [i \in 1..3 |-> IF color[i] - 50 < 0 THEN 0 ELSE color[i] - 50]
    ELSE color

shouldDither(theta, phi) == FeatureNoise(theta, phi, 100, 20000) > 500

Clamp255(c) == IF c < 0 THEN 0 ELSE IF c > 255 THEN 255 ELSE c

applyDithering(color, theta, phi) ==
    [i \in 1..3 |-> Clamp255(color[i] + (FeatureNoise(theta, phi, 200, 21000) * 20) \div 1000)]

Dithered(color, theta, phi) ==
    IF shouldDither(theta, phi) THEN applyDithering(color, theta, phi) ELSE color

\* TerrainColorManager.getColor(terrainData, theta, phi)
getColor(terrainData, theta, phi) ==
    Dithered(
        Submerged(
            Snowed(
                TemperatureTinted(
                    HeightShaded(FeatureColor(terrainData.features, theta, phi), terrainData.height),
                    terrainData.temperature),
                terrainData.height, theta, phi),
            terrainData.features),
        theta, phi)

-----------------------------------------------------------------------------
(* EllipsoidMesh: vertex keys.  getVertexKey takes its angles in units of  *)
(* 1e-8 radian, the precision of the key.                                  *)

\* Math.PI and 2 * Math.PI in units of 1e-8 radian
Pi8 == 314159265
TwoPi8 == 628318531

\* epsilon = 1e-6
Epsilon8 == 100

\* a corner of the quadtree grid (k units of pi / HalfTurn) in units of 1e-8 radian,
\* rounded to the nearest: pi / 32 = 0.0981747704
Rad8(k) == k * 9817477 + RoundDiv(4 * k, 100)

\* phi kept at the poles: not what the code does
KeyPhiSeamOnly(theta, phi) == IF Abs(phi - TwoPi8) < Epsilon8 THEN 0 ELSE phi

\* phi kept at the seam: not what the code does
KeyPhiPolesOnly(theta, phi) ==
    IF Abs(theta) < Epsilon8 \/ Abs(theta - Pi8) < Epsilon8 THEN 0 ELSE phi

\* the phi the key is built from
KeyPhi(theta, phi) ==
    IF Abs(theta) < Epsilon8 \/ Abs(theta - Pi8) < Epsilon8 THEN 0
    ELSE IF Abs(phi - TwoPi8) < Epsilon8 THEN 0
    ELSE phi

\* `${coarseTheta},${coarsePhi}:${thetaKey},${phiKey}`
VertexKeyOf(theta, phi) ==
    << RoundDiv(theta, 10000000), RoundDiv(phi, 10000000), theta, phi >>

getVertexKey(theta, phi) == VertexKeyOf(theta, KeyPhi(theta, phi))

\* a bound of a node, counted in cells, as an angle in units of pi / HalfTurn
CornerTheta(c) == (c * HalfTurn) \div (2 ^ MaxDepth)
CornerPhi(c) == (c * 2 * HalfTurn) \div (2 ^ MaxDepth)

\* the four corners of a leaf in the order bottom-left, bottom-right, top-left, top-right
Corners(n) ==
    << <<CornerTheta(thetaMin(n)), CornerPhi(phiMin(n))>>,
       <<CornerTheta(thetaMin(n)), CornerPhi(phiMax(n))>>,
       <<CornerTheta(thetaMax(n)), CornerPhi(phiMin(n))>>,
       <<CornerTheta(thetaMax(n)), CornerPhi(phiMax(n))>> >>

\* the key of a grid point
CornerKey(point) == getVertexKey(Rad8(point[1]), Rad8(point[2]))

\* key.split(':')[1].split(',').map(Number): the point a key of a grid point names
KeyPoint(point) ==
    << point[1], IF KeyPhi(Rad8(point[1]), Rad8(point[2])) = 0 THEN 0 ELSE point[2] >>

\* t >= node.thetaMin && t <= node.thetaMax && p >= node.phiMin && p <= node.phiMax
Contains(n, theta, phi) ==
    /\ theta >= CornerTheta(thetaMin(n)) /\ theta <= CornerTheta(thetaMax(n))
    /\ phi >= CornerPhi(phiMin(n)) /\ phi <= CornerPhi(phiMax(n))

\* findLeafNode: the search descends into the first child that contains the point
RECURSIVE findLeafNode(_, _, _, _)
findLeafNode(n, theta, phi, int) ==
    IF isLeaf(n, int) THEN (IF Contains(n, theta, phi) THEN <<n>> ELSE <<>>)
    ELSE IF Contains(Children(n)[1], theta, phi) THEN findLeafNode(Children(n)[1], theta, phi, int)
    ELSE IF Contains(Children(n)[2], theta, phi) THEN findLeafNode(Children(n)[2], theta, phi, int)
    ELSE IF Contains(Children(n)[3], theta, phi) THEN findLeafNode(Children(n)[3], theta, phi, int)
    ELSE IF Contains(Children(n)[4], theta, phi) THEN findLeafNode(Children(n)[4], theta, phi, int)
    ELSE <<>>

\* the distance argument (hundredths) as getRequiredLod compares it with its thresholds
LodDistance(distance) == (distance + 99) \div 100

RECURSIVE FallbackHeights(_, _, _, _, _)

FallbackNext(r, vm, points, on, lod0) ==
    IF r.threw THEN [threw |-> TRUE, fm |-> r.fm] ELSE FallbackHeights(r.fm, vm, points, on, lod0)

\* getHeightFromKey of getSurfaceHeightAt over the corners of the leaf: a corner that is
\* not in vertexMap is computed with mapToEllipsoid(theta, phi, lodDistances[0])
FallbackHeights(fm, vm, points, on, lod0) ==
    IF points = <<>> THEN [threw |-> FALSE, fm |-> fm]
    ELSE IF CornerKey(Head(points)) \in DOMAIN vm
    THEN FallbackHeights(fm, vm, Tail(points), on, lod0)
    ELSE FallbackNext(getHeight(fm, KeyPoint(Head(points))[1], KeyPoint(Head(points))[2], lod0, on),
                      vm, Tail(points), on, lod0)

\* getSurfaceHeightAt(theta, phi) as addVertex uses it: only its calls of getHeight matter
getSurfaceHeightAt(fm, vm, theta, phi, int, on, lod0) ==
    IF findLeafNode(Root, theta, IF phi >= 2 * HalfTurn THEN phi - 2 * HalfTurn ELSE phi, int) = <<>>
    THEN FallbackNext(getHeight(fm, theta, IF phi >= 2 * HalfTurn THEN phi - 2 * HalfTurn ELSE phi,
                                lod0, on), vm, <<>>, on, lod0)
    ELSE FallbackHeights(fm, vm,
             Corners(findLeafNode(Root, theta,
                                  IF phi >= 2 * HalfTurn THEN phi - 2 * HalfTurn ELSE phi, int)[1]),
             on, lod0)

\* the buffers while the leaves are emitted; quad holds the indices of the current leaf
EmptyBuffers(fm) ==
    [threw |-> FALSE, fm |-> fm, vm |-> [k \in {} |-> 0], positions |-> <<>>, colors |-> <<>>,
     indices |-> <<>>, quad |-> <<>>]

\* addVertex with a key that is in vertexMap
SeenVertex(st, key, touched) ==
    IF touched.threw THEN [st EXCEPT !.threw = TRUE, !.fm = touched.fm]
    ELSE [st EXCEPT !.fm = touched.fm, !.quad = Append(@, st.vm[key])]

\* addVertex pushing a vertex without vertexMap.set: not what the code does
NewVertexNotCached(st, key, theta, phi, r) ==
    IF r.threw THEN [st EXCEPT !.threw = TRUE, !.fm = r.fm]
    ELSE [st EXCEPT !.fm = r.fm,
                    !.positions = Append(@, ScaledPos(theta, phi, r.ret.height)),
                    !.colors = Append(@, getColor(r.ret, theta, phi)),
                    !.quad = Append(@, Len(st.positions))]

\* addVertex with a new key: mapToEllipsoid, getColor, push, vertexMap.set
NewVertex(st, key, theta, phi, r) ==
    IF r.threw THEN [st EXCEPT !.threw = TRUE, !.fm = r.fm]
    ELSE [st EXCEPT !.fm = r.fm,
                    !.vm = MapSet(st.vm, key, Len(st.positions)),
                    !.positions = Append(@, ScaledPos(theta, phi, r.ret.height)),
                    !.colors = Append(@, getColor(r.ret, theta, phi)),
                    !.quad = Append(@, Len(st.positions))]

\* EllipsoidMesh.addVertex(positions, colors, theta, phi, cameraPos, baseHeightData)
addVertex(st, theta, phi, cameraPos, baseHeightData, int, on, lod0) ==
    IF st.threw THEN st
    ELSE IF CornerKey(<<theta, phi>>) \in DOMAIN st.vm
    THEN SeenVertex(st, CornerKey(<<theta, phi>>),
                    getSurfaceHeightAt(st.fm, st.vm, theta, phi, int, on, lod0))
    ELSE NewVertex(st, CornerKey(<<theta, phi>>), theta, phi,
                   getHeight(st.fm, theta, phi,
                             LodDistance(calculateDistanceToCamera(theta, phi, cameraPos,
                                                                   baseHeightData)), on))

\* indices.push(bottomLeft, bottomRight, topRight); indices.push(bottomLeft, topRight, topLeft)
PushTriangles(st) ==
    IF st.threw THEN st
    ELSE [st EXCEPT !.indices = @ \o << st.quad[1], st.quad[2], st.quad[4],
                                        st.quad[1], st.quad[4], st.quad[3] >>,
                    !.quad = <<>>]

RECURSIVE AddCorners(_, _, _, _, _, _, _)
AddCorners(st, points, cameraPos, baseHeightData, int, on, lod0) ==
    IF points = <<>> THEN st
    ELSE AddCorners(addVertex(st, Head(points)[1], Head(points)[2], cameraPos, baseHeightData,
                              int, on, lod0),
                    Tail(points), cameraPos, baseHeightData, int, on, lod0)

\* the loop of generateGeometry over the leaves
RECURSIVE EmitLeaves(_, _, _, _, _, _, _)
EmitLeaves(st, leaves, cameraPos, baseHeightData, int, on, lod0) ==
    IF leaves = <<>> \/ st.threw THEN st
    ELSE EmitLeaves(PushTriangles(AddCorners(st, Corners(Head(leaves)), cameraPos, baseHeightData,
                                             int, on, lod0)),
                    Tail(leaves), cameraPos, baseHeightData, int, on, lod0)

\* the while loop of balanceTree, run to its end
RECURSIVE BalanceLoop(_, _, _)

BalanceLoopNext(r) == BalanceLoop(r.internal, r.queue, r.forced)

BalanceLoop(int, q, frc) ==
    IF q = <<>> THEN [internal |-> int, forced |-> frc]
    ELSE BalanceLoopNext(BalanceNeighbors(Head(q), getAdjacentNodes(Head(q), findAllLeaves(Root, int)),
                                          int, Tail(q), frc))

\* QuadtreeNode.balanceTree(root)
balanceTree(int) == BalanceLoop(int, InitialQueue(int), {})

-----------------------------------------------------------------------------
(* Inputs                                                                  *)

\* lodDistances arrays handed to the EllipsoidMesh constructor
LodInputs == { <<15, 30, 45, 60>>, <<1, 2, 4, 5>>, <<3, 1, 2>>, <<4, 2>> }

\* camera positions handed to buildTree
CameraInputs == { <<10, 0, 0>>, <<3, -2, -6>>, <<2, 0, -5>>, <<-4, -3, -6>>, <<-2, -3, -4>>, <<70, 0, 0>> }

Seeds == {7, 11}

\* (theta, phi) handed to getHeight, in units of pi / HalfTurn
TerrainPoints == { <<16, 32>>, <<2, 27>>, <<2, 28>>, <<3, 50>> }

\* camera distances handed to getHeight / getRequiredLod
Distances == {0, 50, 100, 150, 200, 400, 600, 900, 1200, 1500}

\* camera distances of the getHeight calls of the interactive runs
CallDistances == {0, 100, 600, 1500}

\* generators switched by the UI in the modelled runs
ToggleNames == {"CraterGenerator", "MagneticAnomalyGenerator", "NoSuchGenerator"}

\* lodDistances.sort((a, b) => a - b)
RECURSIVE SortAsc(_)
SortAsc(s) ==
    IF s = <<>> THEN <<>>
    ELSE LET m == CHOOSE k \in 1..Len(s) : \A j \in 1..Len(s) : s[k] <= s[j]
         IN <<s[m]>> \o SortAsc(SubSeq(s, 1, m - 1) \o SubSeq(s, m + 1, Len(s)))

NoCall ==
    [op |-> "none", pending |-> FALSE, theta |-> 0, phi |-> 0, distance |-> 0, gen |-> "", on |-> FALSE,
     lod |-> 0, height |-> 0, temperature |-> 0, existing |-> <<>>, biome |-> "",
     registered |-> <<>>, camera |-> <<>>, prevCamera |-> <<>>, prevLeaves |-> {}, builds |-> 0]

NoRet ==
    [threw |-> FALSE, height |-> 0, features |-> <<>>, temperature |-> 0, biome |-> "",
     value |-> 0, label |-> Null, key |-> <<>>, changed |-> <<>>, evaluated |-> <<>>]

\* the tree of a fresh EllipsoidMesh: a root without children
InitTreeWith(lodInputs) ==
    /\ lodDistances \in {SortAsc(l) : l \in lodInputs}
    /\ internal = {}
    /\ rootBase = NoBase
    /\ queue = <<>>
    /\ pc = "idle"
    /\ camera = <<0, 0, 0>>
    /\ visits = {}
    /\ forced = {}
    /\ warned = FALSE
    /\ builds = 0
    /\ flat = {}
    /\ iteration = 0

\* a fresh TerrainGenerator: empty featureMap
InitGenerator ==
    /\ featureMap = EmptyMap
    /\ seed \in Seeds
    /\ lastRet = NoRet
    /\ calls = 0
    /\ returned = [p \in {} |-> <<>>]

NoSnapshot == [taken |-> FALSE, compared |-> FALSE, camera |-> <<0, 0, 0>>, positions |-> <<>>]

\* the buffers of a fresh EllipsoidMesh
InitMesh ==
    /\ vertexMap = [k \in {} |-> 0]
    /\ positions = <<>>
    /\ colors = <<>>
    /\ indices = <<>>
    /\ snapshot = NoSnapshot

InitTree == InitTreeWith(LodInputs)

InitWith(lodInputs) ==
    /\ InitTreeWith(lodInputs)
    /\ InitGenerator
    /\ InitMesh
    /\ enabled = [g \in GenNames |-> FALSE]
    /\ lastCall = NoCall

Init == InitWith(LodInputs)

-----------------------------------------------------------------------------
(* QuadTreeManager.buildTree(camera): clear, descend, then balanceTree.    *)
(* The while loop of balanceTree runs one iteration per step.              *)

GetHeightCallRecord(theta, phi, distance) ==
    [NoCall EXCEPT !.op = "getHeight", !.theta = theta, !.phi = phi, !.distance = distance]

GetHeightRetRecord(r) ==
    [NoRet EXCEPT !.threw = r.threw, !.height = r.ret.height, !.features = r.ret.features,
                  !.temperature = r.ret.temperature, !.biome = r.ret.biome]

\* remember what getHeight returned at a position
Remember(rets, point, distance, r) ==
    IF r.threw THEN rets
    ELSE [q \in (DOMAIN rets) \cup {point} |->
             IF q = point
             THEN (IF point \in DOMAIN rets THEN rets[point] ELSE <<>>) \o << <<distance, r.ret>> >>
             ELSE rets[q]]

\* the descent threw inside terrain.getHeight: the exception leaves buildTree
BuildThrown(cameraPos, rootDistance, call) ==
    /\ internal' = {}
    /\ visits' = {<<Root, rootDistance, getDesiredLevel(rootDistance, lodDistances)>>}
    /\ queue' = <<>>
    /\ pc' = "idle"
    /\ featureMap' = call.fm
    /\ lastCall' = GetHeightCallRecord(getCenter(Root).theta, getCenter(Root).phi, 0)
    /\ lastRet' = GetHeightRetRecord(call)
    /\ UNCHANGED <<rootBase, returned>>

\* the descent completed: the first loop of balanceTree fills the queue
BuildDescended(built, needBase, newBase, call) ==
    /\ internal' = built.internal
    /\ visits' = built.visits
    /\ queue' = InitialQueue(built.internal)
    /\ pc' = "balance"
    /\ rootBase' = newBase
    /\ featureMap' = IF needBase THEN call.fm ELSE featureMap
    /\ lastCall' = IF needBase
                   THEN GetHeightCallRecord(getCenter(Root).theta, getCenter(Root).phi, 0)
                   ELSE lastCall
    /\ lastRet' = IF needBase THEN GetHeightRetRecord(call) ELSE lastRet
    /\ returned' = IF needBase
                   THEN Remember(returned, <<getCenter(Root).theta, getCenter(Root).phi>>, 0, call)
                   ELSE returned

\* root.subdivide sets root.baseHeight from terrain.getHeight when it is still null
BuildWithBase(cameraPos, rootDistance, needBase, newBase, call) ==
    IF needBase /\ call.threw
    THEN BuildThrown(cameraPos, rootDistance, call)
    ELSE BuildDescended(buildTreeRecursive(Root, cameraPos, rootBase, newBase, lodDistances),
                        needBase, newBase, call)

BuildWithCall(cameraPos, rootDistance, needBase, call) ==
    BuildWithBase(cameraPos, rootDistance, needBase,
                  IF needBase THEN [isNull |-> FALSE, height |-> call.ret.height] ELSE rootBase,
                  call)

BuildFromRoot(cameraPos, rootDistance) ==
    BuildWithCall(cameraPos, rootDistance,
                  ShouldSubdivide(0, getDesiredLevel(rootDistance, lodDistances), Len(lodDistances))
                      /\ baseHeightUnset(rootBase),
                  getHeight(featureMap, getCenter(Root).theta, getCenter(Root).phi, 0, enabled))

buildTree(cameraPos) ==
    /\ pc = "idle"
    /\ builds < MaxBuilds
    /\ BuildFromRoot(cameraPos,
           calculateDistanceToCamera(getCenter(Root).theta, getCenter(Root).phi, cameraPos, rootBase))
    /\ camera' = cameraPos
    /\ forced' = {}
    /\ warned' = FALSE
    /\ builds' = builds + 1
    /\ UNCHANGED <<lodDistances, enabled, seed, calls, meshVars, cappedVars>>

\* the baseHeight a node carries: the root its own, every other node the one its
\* parent handed down when it was subdivided (child.baseHeight = this.baseHeight)
RECURSIVE baseHeightOf(_, _)
baseHeightOf(n, base) ==
    IF n = Root THEN base
    ELSE baseHeightOf(<<n[1] - 1, n[2] \div 2, n[3] \div 2>>, base)

\* neighbor.subdivide(node.terrain): node.terrain is undefined, so a neighbour whose
\* baseHeight is unset makes subdivide read getHeight of undefined, a TypeError
ForcedWithoutBase(newlyForced, base) ==
    \E neighbor \in newlyForced : baseHeightUnset(baseHeightOf(neighbor, base))

\* the iteration threw: the exception leaves balanceTree and the call that ran it
BalanceThrown(r) ==
    /\ internal' = r.internal
    /\ queue' = <<>>
    /\ forced' = r.forced
    /\ pc' = "idle"
    /\ lastCall' = [NoCall EXCEPT !.op = "balanceTree"]
    /\ lastRet' = [NoRet EXCEPT !.threw = TRUE]
    /\ UNCHANGED <<calls, returned>>

\* the iteration completed
BalanceIterated(r) ==
    /\ internal' = r.internal
    /\ queue' = r.queue
    /\ forced' = r.forced
    /\ UNCHANGED <<pc, callVars>>

\* one iteration of the while loop of balanceTree
balanceStep ==
    /\ pc = "balance"
    /\ queue # <<>>
    /\ \E r \in {BalanceNeighbors(Head(queue),
                                   getAdjacentNodes(Head(queue), findAllLeaves(Root, internal)),
                                   internal, Tail(queue), forced)} :
          IF ForcedWithoutBase(r.forced \ forced, rootBase)
          THEN BalanceThrown(r)
          ELSE BalanceIterated(r)
    /\ UNCHANGED <<lodDistances, rootBase, camera, visits, warned, builds>>
    /\ UNCHANGED <<terrVars, meshVars, cappedVars>>

\* the queue is empty: balanceTree, and with it buildTree, returns
balanceReturn ==
    /\ pc = "balance"
    /\ queue = <<>>
    /\ pc' = "idle"
    /\ UNCHANGED <<lodDistances, internal, rootBase, queue, camera, visits, forced, warned, builds>>
    /\ UNCHANGED <<terrVars, callVars, meshVars, cappedVars>>

NextTree ==
    \/ \E cameraPos \in CameraInputs : buildTree(cameraPos)
    \/ balanceStep
    \/ balanceReturn

SpecTree == Init /\ [][NextTree]_vars

\* the while loop of balanceTree has an iteration to run
BalanceRunning == pc = "balance" /\ queue # <<>>

\* weak fairness of balanceStep, with its enabling condition written out: an iteration
\* pops the head of the queue, so it is possible exactly when the queue is not empty
BalanceStepFair == []<>(~ BalanceRunning) \/ []<><<balanceStep>>_vars

\* balanceTree is one synchronous call: once started, its loop keeps running
SpecTreeFair == SpecTree /\ BalanceStepFair /\ WF_vars(balanceReturn)

-----------------------------------------------------------------------------
(* The TerrainGenerator driven from the UI: toggles, regeneration and      *)
(* getHeight calls, on the mesh of the test page.                          *)

InitTerrain == Init /\ lodDistances = <<15, 30, 45, 60>>

\* generator.enabled = enabled on every generator: not what the code does
ToggledFlagsAll(flags, generatorName, on) == [g \in DOMAIN flags |-> on]

\* featureGenerators.find(...) by class name; generator.enabled = enabled when found
ToggledFlags(flags, generatorName, on) ==
    IF generatorName \in GenNames THEN [flags EXCEPT ![generatorName] = on] ELSE flags

toggleFeatureGenerator(generatorName, on) ==
    /\ calls < MaxCalls
    /\ enabled' = ToggledFlags(enabled, generatorName, on)
    /\ lastCall' = [NoCall EXCEPT !.op = "toggleFeatureGenerator", !.gen = generatorName, !.on = on]
    /\ lastRet' = NoRet
    /\ calls' = calls + 1
    /\ UNCHANGED <<treeVars, featureMap, seed, returned, meshVars, cappedVars>>

\* regenerateTerrain clears the feature map; snapshot keeps the vertex buffer and the
\* camera of the last generateGeometry for comparison with the next one
regenerateTerrain ==
    /\ calls < MaxCalls
    /\ featureMap' = EmptyMap
    /\ returned' = [p \in {} |-> <<>>]
    /\ lastCall' = [NoCall EXCEPT !.op = "regenerateTerrain"]
    /\ lastRet' = NoRet
    /\ calls' = calls + 1
    /\ snapshot' = IF positions = <<>> THEN snapshot
                   ELSE [taken |-> TRUE, compared |-> FALSE, camera |-> camera,
                         positions |-> positions]
    /\ UNCHANGED <<treeVars, enabled, seed, vertexMap, positions, colors, indices, cappedVars>>

GetHeightReturns(theta, phi, distance, r) ==
    /\ featureMap' = r.fm
    /\ lastCall' = GetHeightCallRecord(theta, phi, distance)
    /\ lastRet' = GetHeightRetRecord(r)
    /\ returned' = Remember(returned, <<theta, phi>>, distance, r)

getHeightCall(point, distance) ==
    /\ calls < MaxCalls
    /\ GetHeightReturns(point[1], point[2], distance,
                        getHeight(featureMap, point[1], point[2], distance, enabled))
    /\ calls' = calls + 1
    /\ UNCHANGED <<treeVars, enabled, seed, meshVars, cappedVars>>

NextTerrain ==
    \/ \E g \in ToggleNames, on \in BOOLEAN : toggleFeatureGenerator(g, on)
    \/ regenerateTerrain
    \/ \E point \in TerrainPoints, distance \in CallDistances : getHeightCall(point, distance)

SpecTerrain == InitTerrain /\ [][NextTerrain]_vars

-----------------------------------------------------------------------------
(* The EllipsoidMesh driven from the page: generateGeometry, the feature   *)
(* switch and the regenerate button.                                        *)

\* lodDistances handed to the EllipsoidMesh constructor
MeshLodInputs == { <<8, 4>>, <<3, 6, 9>> }

MeshCameras == { <<10, 0, 0>>, <<3, -2, -6>>, <<2, 0, -5>>, <<-4, -3, -6>> }

InitMeshSpec == InitWith(MeshLodInputs)

\* buildTree threw inside root.subdivide: vertexMap is cleared, the buffers are kept
GeometryThrown(cameraPos, rootDistance, call) ==
    /\ internal' = {}
    /\ visits' = {<<Root, rootDistance, getDesiredLevel(rootDistance, lodDistances)>>}
    /\ featureMap' = call.fm
    /\ vertexMap' = [k \in {} |-> 0]
    /\ lastRet' = [NoRet EXCEPT !.threw = TRUE]
    /\ UNCHANGED <<rootBase, forced, positions, colors, indices>>

\* the loop over the leaves ended, or an addVertex threw
GeometryEmitted(built, balanced, newBase, st) ==
    /\ internal' = balanced.internal
    /\ visits' = built.visits
    /\ forced' = balanced.forced
    /\ rootBase' = newBase
    /\ featureMap' = st.fm
    /\ vertexMap' = st.vm
    /\ positions' = st.positions
    /\ colors' = st.colors
    /\ indices' = st.indices
    /\ lastRet' = [NoRet EXCEPT !.threw = st.threw]

GeometryBalanced(cameraPos, built, balanced, newBase, fm) ==
    GeometryEmitted(built, balanced, newBase,
                    EmitLeaves(EmptyBuffers(fm), findAllLeaves(Root, balanced.internal), cameraPos,
                               newBase, balanced.internal, enabled, lodDistances[1]))

GeometryBuilt(cameraPos, built, newBase, fm) ==
    GeometryBalanced(cameraPos, built, balanceTree(built.internal), newBase, fm)

GeometryWithBase(cameraPos, rootDistance, needBase, newBase, call) ==
    IF needBase /\ call.threw
    THEN GeometryThrown(cameraPos, rootDistance, call)
    ELSE GeometryBuilt(cameraPos,
                       buildTreeRecursive(Root, cameraPos, rootBase, newBase, lodDistances),
                       newBase, IF needBase THEN call.fm ELSE featureMap)

GeometryWithCall(cameraPos, rootDistance, needBase, call) ==
    GeometryWithBase(cameraPos, rootDistance, needBase,
                     IF needBase THEN [isNull |-> FALSE, height |-> call.ret.height] ELSE rootBase,
                     call)

GeometryFromRoot(cameraPos, rootDistance) ==
    GeometryWithCall(cameraPos, rootDistance,
                     ShouldSubdivide(0, getDesiredLevel(rootDistance, lodDistances),
                                     Len(lodDistances)) /\ baseHeightUnset(rootBase),
                     getHeight(featureMap, getCenter(Root).theta, getCenter(Root).phi, 0, enabled))

\* EllipsoidMesh.generateGeometry(camera): vertexMap.clear(), buildTree with its balanceTree,
\* then the four corners and the two triangles of every leaf
generateGeometry(cameraPos) ==
    /\ pc = "idle"
    /\ calls < MaxCalls
    /\ GeometryFromRoot(cameraPos,
           calculateDistanceToCamera(getCenter(Root).theta, getCenter(Root).phi, cameraPos, rootBase))
    /\ camera' = cameraPos
    /\ warned' = FALSE
    /\ lastCall' = [NoCall EXCEPT !.op = "generateGeometry"]
    /\ calls' = calls + 1
    /\ snapshot' = IF snapshot.taken /\ ~ snapshot.compared
                   THEN [snapshot EXCEPT !.compared = TRUE]
                   ELSE NoSnapshot
    /\ UNCHANGED <<lodDistances, queue, pc, builds, enabled, seed, returned, cappedVars>>

NextMesh ==
    \/ \E cameraPos \in MeshCameras : generateGeometry(cameraPos)
    \/ \E g \in ToggleNames, on \in BOOLEAN : toggleFeatureGenerator(g, on)
    \/ regenerateTerrain

SpecMesh == InitMeshSpec /\ [][NextMesh]_vars

-----------------------------------------------------------------------------
(* Single calls on a fresh TerrainGenerator and on its feature generators: *)
(* the initial state holds the arguments, one step makes the call.         *)

FeaturePoints == { <<16, 32>>, <<3, 50>>, <<27, 10>>, <<9, 19>>, <<14, 51>> }
HeightInputs == {-200, 0, 500}
TemperatureInputs == {-20000, 45000}
ExistingInputs ==
    { <<>>, <<"volcano">>, <<"plain">>, <<"valley">>, <<"river", "glacial">>, <<"underwater">> }
BiomeInputs == {"temperate", "highland", "polar", Undefined}
EnabledInputs == { {}, {"CraterGenerator"}, {"MagneticAnomalyGenerator"}, GenNames }

ApplyFeatureInputs ==
    { [NoCall EXCEPT !.op = "applyFeature", !.pending = TRUE, !.gen = g, !.theta = point[1],
                     !.phi = point[2], !.height = h, !.temperature = t, !.existing = ex,
                     !.biome = b] :
        g \in GenNames, point \in FeaturePoints, h \in HeightInputs, t \in TemperatureInputs,
        ex \in ExistingInputs, b \in BiomeInputs }

Reversed(s) == [k \in 1..Len(s) |-> s[Len(s) + 1 - k]]

\* registration lists: the constructor's, the same backwards, and the constructor's
\* with its two halves exchanged
Registrations ==
    { GenOrder, Reversed(GenOrder), SubSeq(GenOrder, 9, Len(GenOrder)) \o SubSeq(GenOrder, 1, 8) }

ApplyFeaturesForLodInputs ==
    { [NoCall EXCEPT !.op = "applyFeaturesForLod", !.pending = TRUE, !.lod = lod,
                     !.theta = point[1], !.phi = point[2], !.height = h, !.temperature = t,
                     !.existing = ex, !.registered = reg] :
        lod \in 0..(Len(LOD) - 1), point \in FeaturePoints, h \in HeightInputs,
        t \in TemperatureInputs, ex \in ExistingInputs, reg \in Registrations }

GetHeightInputs ==
    { [NoCall EXCEPT !.op = "getHeight", !.pending = TRUE, !.theta = point[1], !.phi = point[2],
                     !.distance = d] :
        point \in FeaturePoints, d \in Distances }

GetRequiredLodInputs ==
    { [NoCall EXCEPT !.op = "getRequiredLod", !.pending = TRUE, !.distance = d] : d \in Distances }

InitFeature ==
    /\ InitTree
    /\ InitMesh
    /\ lodDistances = <<15, 30, 45, 60>>
    /\ InitGenerator
    /\ \/ /\ lastCall \in ApplyFeatureInputs \cup GetRequiredLodInputs
          /\ enabled = [g \in GenNames |-> FALSE]
       \/ /\ lastCall \in ApplyFeaturesForLodInputs \cup GetHeightInputs
          /\ enabled \in {[g \in GenNames |-> g \in on] : on \in EnabledInputs}

Pending(op) == lastCall.pending /\ lastCall.op = op

Called ==
    /\ lastCall' = [lastCall EXCEPT !.pending = FALSE]
    /\ calls' = calls + 1
    /\ UNCHANGED <<treeVars, terrVars, returned, meshVars, cappedVars>>

ApplyFeatureRet(r) ==
    [NoRet EXCEPT !.threw = r.threw, !.height = r.heightAdjustment, !.label = r.featureLabel,
                  !.features = r.features]

applyFeatureCall ==
    /\ Pending("applyFeature")
    /\ lastRet' = ApplyFeatureRet(applyFeature(lastCall.gen, lastCall.theta, lastCall.phi,
                                               lastCall.height, lastCall.temperature,
                                               lastCall.existing, lastCall.biome))
    /\ Called

ApplyFeaturesForLodRet(r) ==
    [NoRet EXCEPT !.threw = r.threw, !.features = r.features, !.evaluated = r.evaluated]

applyFeaturesForLodCall ==
    /\ Pending("applyFeaturesForLod")
    /\ lastRet' = ApplyFeaturesForLodRet(
                      applyFeaturesForLod(lastCall.registered, lastCall.theta, lastCall.phi,
                                          lastCall.lod,
                                          lastCall.height, lastCall.temperature,
                                          lastCall.existing, enabled))
    /\ Called

getRequiredLodCall ==
    /\ Pending("getRequiredLod")
    /\ lastRet' = [NoRet EXCEPT !.value = getRequiredLod(lastCall.distance)]
    /\ Called

getHeightOnce ==
    /\ Pending("getHeight")
    /\ GetHeightReturns(lastCall.theta, lastCall.phi, lastCall.distance,
                        getHeight(featureMap, lastCall.theta, lastCall.phi, lastCall.distance,
                                  enabled))
    /\ calls' = calls + 1
    /\ UNCHANGED <<treeVars, enabled, seed, meshVars, cappedVars>>

NextFeature ==
    \/ applyFeatureCall
    \/ applyFeaturesForLodCall
    \/ getRequiredLodCall
    \/ getHeightOnce

SpecFeature == InitFeature /\ [][NextFeature]_vars

\* a call has been made and has returned or thrown
Done(op) == lastCall.op = op /\ ~ lastCall.pending

-----------------------------------------------------------------------------
(* The older mesh of src/EllipsoidMesh.js with the QuadtreeNode of         *)
(* src/QuadtreeNode.js: buildTree after root.children.clear(), then the     *)
(* capped balanceTree, one pass of its while loop per step. The height the  *)
(* terrain of that mesh returns at a node centre is an input of a build.    *)

\* maxLevel and minLevel handed to the constructor
CappedMaxLevel == 3
CappedMinLevel == 1

\* maxIterations = 1000
CapIterations == 1000

CappedLodInputs == { <<3, 6, 9>>, <<2, 5>>, <<4, 8, 12>> }

\* terrainData.height at a node centre, in thousandths
ReliefInputs == {-100, 0, 150}

\* a is a proper ancestor of n
IsAncestor(a, n) ==
    /\ a[1] < n[1]
    /\ a[2] = n[2] \div (2 ^ (n[1] - a[1]))
    /\ a[3] = n[3] \div (2 ^ (n[1] - a[1]))

\* node.level: the children of a node subdivided with changeLevel = false keep its level
Level(n, flt) == n[1] - Cardinality({a \in flt : IsAncestor(a, n)})

\* node.neighborlySubdivide: set on the node by balanceTree, inherited by children
neighborlySubdivide(n, flt) == n \in flt \/ \E a \in flt : IsAncestor(a, n)

RECURSIVE CappedDesiredFrom(_, _, _)
CappedDesiredFrom(i, distance, lods) ==
    IF i >= Len(lods) THEN CappedMinLevel
    ELSE IF distance < 100 * lods[i + 1]
    THEN (IF CappedMaxLevel - i > CappedMinLevel THEN CappedMaxLevel - i ELSE CappedMinLevel)
    ELSE CappedDesiredFrom(i + 1, distance, lods)

\* EllipsoidMesh.getDesiredLevel(distance) of src/EllipsoidMesh.js
CappedDesiredLevel(distance, lods) == CappedDesiredFrom(0, distance, lods)

\* centerPos.distanceTo(cameraPos), centerPos scaled by 1 + height
CappedDistance(n, cameraPos, relief) ==
    calculateDistanceToCamera(getCenter(n).theta, getCenter(n).phi, cameraPos,
                              [isNull |-> FALSE, height |-> relief])

\* EllipsoidMesh.buildTree(node, cameraPos) of src/EllipsoidMesh.js: the nodes it subdivides
RECURSIVE CappedBuild(_, _, _, _)
CappedBuild(n, cameraPos, relief, lods) ==
    IF n[1] < CappedDesiredLevel(CappedDistance(n, cameraPos, relief), lods) /\ n[1] < CappedMaxLevel
    THEN {n} \cup CappedBuild(Children(n)[1], cameraPos, relief, lods)
             \cup CappedBuild(Children(n)[2], cameraPos, relief, lods)
             \cup CappedBuild(Children(n)[3], cameraPos, relief, lods)
             \cup CappedBuild(Children(n)[4], cameraPos, relief, lods)
    ELSE {}

NoChange == [found |-> FALSE, node |-> Root, sameLevel |-> FALSE]

\* the inner for loop of a pass: the first neighbour that is subdivided
RECURSIVE NeighborChange(_, _, _)
NeighborChange(leaf, neighbors, flt) ==
    IF neighbors = <<>> THEN NoChange
    ELSE IF Level(leaf, flt) > Level(Head(neighbors), flt) + 1
    THEN [found |-> TRUE, node |-> Head(neighbors), sameLevel |-> FALSE]
    ELSE IF Level(leaf, flt) = Level(Head(neighbors), flt) + 1
            /\ ~ neighborlySubdivide(Head(neighbors), flt)
    THEN [found |-> TRUE, node |-> Head(neighbors), sameLevel |-> TRUE]
    ELSE NeighborChange(leaf, Tail(neighbors), flt)

RECURSIVE LeafChange(_, _, _)

ChangeOrNext(c, rest, leaves, flt) == IF c.found THEN c ELSE LeafChange(rest, leaves, flt)

\* the outer for loop of a pass over currentLeaves
LeafChange(rest, leaves, flt) ==
    IF rest = <<>> THEN NoChange
    ELSE ChangeOrNext(NeighborChange(Head(rest), getAdjacentNodes(Head(rest), leaves), flt),
                      Tail(rest), leaves, flt)

\* one pass of the while loop of the capped balanceTree over the leaves of the tree
CappedPass(int, flt) == LeafChange(findAllLeaves(Root, int), findAllLeaves(Root, int), flt)

InitCapped == InitWith(CappedLodInputs)

\* generateGeometry of src/EllipsoidMesh.js up to balanceTree: clear, buildTree
buildTreeCapped(cameraPos, relief) ==
    /\ pc = "idle"
    /\ builds < MaxBuilds
    /\ internal' = CappedBuild(Root, cameraPos, relief, lodDistances)
    /\ rootBase' = IF internal' = {} THEN rootBase ELSE [isNull |-> FALSE, height |-> relief]
    /\ flat' = {}
    /\ forced' = {}
    /\ iteration' = 0
    /\ warned' = FALSE
    /\ camera' = cameraPos
    /\ builds' = builds + 1
    /\ pc' = "capped"
    /\ UNCHANGED <<lodDistances, queue, visits, terrVars, callVars, meshVars>>

CappedStepTo(c) ==
    /\ c.found
    /\ internal' = internal \cup {c.node}
    /\ flat' = IF c.sameLevel THEN flat \cup {c.node} ELSE flat
    /\ forced' = forced \cup {c.node}

\* a pass that subdivides a neighbour: changes = true, the leaves are collected again
cappedStep ==
    /\ pc = "capped"
    /\ iteration < CapIterations
    /\ CappedStepTo(CappedPass(internal, flat))
    /\ iteration' = iteration + 1
    /\ UNCHANGED <<lodDistances, rootBase, queue, pc, camera, visits, warned, builds>>
    /\ UNCHANGED <<terrVars, callVars, meshVars>>

\* the loop ends: a pass without a change, or the cap; the warning at the cap
cappedReturn ==
    /\ pc = "capped"
    /\ \/ /\ iteration < CapIterations
          /\ ~ CappedPass(internal, flat).found
          /\ iteration' = iteration + 1
       \/ /\ iteration >= CapIterations
          /\ iteration' = iteration
    /\ warned' = (iteration' >= CapIterations)
    /\ pc' = "idle"
    /\ UNCHANGED <<lodDistances, internal, rootBase, queue, camera, visits, forced, builds, flat>>
    /\ UNCHANGED <<terrVars, callVars, meshVars>>

NextCapped ==
    \/ \E cameraPos \in CameraInputs, relief \in ReliefInputs : buildTreeCapped(cameraPos, relief)
    \/ cappedStep
    \/ cappedReturn

SpecCapped == InitCapped /\ [][NextCapped]_vars

-----------------------------------------------------------------------------
(* QuadTreeManager.updateTree(camera) on a tree that buildTree has built:  *)
(* _updateTreeRecursive subdivides and merges, then balanceTree.            *)

UpdateLodInputs == { <<3, 6, 9>>, <<4, 8>> }

UpdateCameras == { <<10, 0, 0>>, <<2, 0, -5>>, <<-4, -3, -6>> }

\* this.lodDistances[index] || otherwise, index counted from 0, in hundredths
LodOr(lods, index, otherwise) ==
    IF index >= 0 /\ index < Len(lods) THEN 100 * lods[index + 1] ELSE otherwise

\* a distance above every distance of the model, for Infinity
Infinity == 1000000

\* 0.2 * (lodDistances[node.level] || lodDistances[lodDistances.length - 1])
Hysteresis(level, lods) == LodOr(lods, level, 100 * lods[Len(lods)]) \div 5

\* desiredLevel > node.level && node.level < maxLevel && distance < currentDistThreshold - hysteresis
UpdateSubdivides(level, distance, lods) ==
    /\ getDesiredLevel(distance, lods) > level
    /\ level < Len(lods)
    /\ distance < LodOr(lods, Len(lods) - level - 1, Infinity) - Hysteresis(level, lods)

\* desiredLevel <= node.level && distance > mergeThreshold + hysteresis
UpdateMerges(level, distance, lods) ==
    /\ getDesiredLevel(distance, lods) <= level
    /\ distance > LodOr(lods, Len(lods) - level, 0) + Hysteresis(level, lods)

allChildrenLeaves(n, int) == \A k \in 1..4 : isLeaf(Children(n)[k], int)

RECURSIVE updateTreeRecursive(_, _, _, _, _)

\* for (const child of node.children.values()) this._updateTreeRecursive(child, ...)
UpdateChildren(n, cameraPos, base, lods, r) ==
    updateTreeRecursive(Children(n)[4], cameraPos, base, lods,
        updateTreeRecursive(Children(n)[3], cameraPos, base, lods,
            updateTreeRecursive(Children(n)[2], cameraPos, base, lods,
                updateTreeRecursive(Children(n)[1], cameraPos, base, lods, r))))

UpdateNode(n, distance, cameraPos, base, lods, r) ==
    IF isLeaf(n, r.internal)
    THEN (IF UpdateSubdivides(n[1], distance, lods)
          THEN UpdateChildren(n, cameraPos, base, lods,
                   [internal |-> subdivide(n, r.internal),
                    changed |-> Append(r.changed, <<n, "subdivide">>)])
          ELSE r)
    ELSE IF allChildrenLeaves(n, r.internal) /\ UpdateMerges(n[1], distance, lods)
    THEN [internal |-> r.internal \ {n}, changed |-> Append(r.changed, <<n, "merge">>)]
    ELSE UpdateChildren(n, cameraPos, base, lods, r)

\* _updateTreeRecursive(node, camera, changedNodes): the tree and changedNodes it leaves
updateTreeRecursive(n, cameraPos, base, lods, r) ==
    UpdateNode(n, calculateDistanceToCamera(getCenter(n).theta, getCenter(n).phi, cameraPos, base),
               cameraPos, base, lods, r)

InitUpdate == InitWith(UpdateLodInputs)

UpdateDescended(r) ==
    /\ internal' = r.internal
    /\ queue' = InitialQueue(r.internal)
    /\ lastRet' = [NoRet EXCEPT !.changed = r.changed]

\* the record of an updateTree call: its camera, the camera of the buildTree or updateTree
\* before it, the leaves it found (prevLeaves) and the number of builds so far
UpdateTreeCallRecord(cameraPos) ==
    [NoCall EXCEPT !.op = "updateTree", !.camera = cameraPos, !.prevCamera = camera,
                   !.prevLeaves = Range(findAllLeaves(Root, internal)), !.builds = builds]

\* updateTree(camera), up to the while loop of balanceTree; the pages build the tree
\* with generateGeometry before the first update
updateTree(cameraPos) ==
    /\ pc = "idle"
    /\ builds > 0
    /\ calls < MaxCalls
    /\ UpdateDescended(updateTreeRecursive(Root, cameraPos, rootBase, lodDistances,
                                           [internal |-> internal, changed |-> <<>>]))
    /\ pc' = "balance"
    /\ camera' = cameraPos
    /\ forced' = {}
    /\ warned' = FALSE
    /\ lastCall' = UpdateTreeCallRecord(cameraPos)
    /\ calls' = calls + 1
    /\ UNCHANGED <<lodDistances, rootBase, visits, builds, terrVars, returned, meshVars, cappedVars>>

NextUpdate ==
    \/ \E cameraPos \in UpdateCameras : buildTree(cameraPos)
    \/ \E cameraPos \in UpdateCameras : updateTree(cameraPos)
    \/ balanceStep
    \/ balanceReturn

SpecUpdate == InitUpdate /\ [][NextUpdate]_vars

-----------------------------------------------------------------------------
(* getVertexKey called once on each of a set of angles, in units of 1e-8   *)
(* radian: the poles, angles within and at epsilon of them, the seam and    *)
(* angles within and at epsilon of it, and angles of the grid.              *)

ThetaInputs == {0, 50, Epsilon8, Rad8(8), Rad8(16), Rad8(24), Pi8 - Epsilon8, Pi8 - 50, Pi8}

PhiInputs ==
    {0, 50, Rad8(16), Rad8(32), Rad8(48), TwoPi8 - 150, TwoPi8 - Epsilon8, TwoPi8 - 50, TwoPi8,
     TwoPi8 + 50}

GetVertexKeyInputs ==
    { [NoCall EXCEPT !.op = "getVertexKey", !.pending = TRUE, !.theta = theta, !.phi = phi] :
        theta \in ThetaInputs, phi \in PhiInputs }

InitKey ==
    /\ InitTree
    /\ InitMesh
    /\ lodDistances = <<15, 30, 45, 60>>
    /\ InitGenerator
    /\ enabled = [g \in GenNames |-> FALSE]
    /\ lastCall \in GetVertexKeyInputs

getVertexKeyCall ==
    /\ Pending("getVertexKey")
    /\ lastRet' = [NoRet EXCEPT !.key = getVertexKey(lastCall.theta, lastCall.phi)]
    /\ Called

NextKey == getVertexKeyCall

SpecKey == InitKey /\ [][NextKey]_vars

-----------------------------------------------------------------------------
(* Properties of the quadtree (SpecTree)                                   *)

\* the leaves of the tree as it stands
Leaves == Range(findAllLeaves(Root, internal))

\* buildTree has returned at least once and no balanceTree is running
Returned == pc = "idle" /\ builds > 0

\* two leaves share a stretch of a theta or phi boundary edge (more than a corner)
SharesEdge(a, b) ==
    \/ /\ (thetaMin(a) = thetaMax(b) \/ thetaMax(a) = thetaMin(b))
       /\ phiMin(a) < phiMax(b)
       /\ phiMin(b) < phiMax(a)
    \/ /\ (phiMin(a) = phiMax(b) \/ phiMax(a) = phiMin(b))
       /\ thetaMin(a) < thetaMax(b)
       /\ thetaMin(b) < thetaMax(a)

\* some two leaves sharing an edge differ by more than one level
Unbalanced(leaves) == \E a \in leaves, b \in leaves : SharesEdge(a, b) /\ Abs(a[1] - b[1]) > 1

\* C1: after buildTree (descent, then balanceTree) has returned, any two leaves
\* sharing a theta or phi boundary edge differ by at most one level, also where
\* balanceTree itself forced a subdivision.
BalancedAfterBalanceTree == Returned => ~ Unbalanced(Leaves)

\* C2: during buildTree a visited node is subdivided exactly when its level is below
\* the desired level of its distance and below maxLevel; a node at its desired level
\* stays a leaf and a camera beyond every threshold leaves the root unsplit.
SubdividedExactlyWhenBelowDesired ==
    builds > 0 =>
        \A v \in visits :
            (v[1] \in internal \ forced) <=> (v[1][1] < v[3] /\ v[1][1] < Len(lodDistances))

\* the level the distance bands assign: maxLevel - i for the nearest band i (0-based)
\* whose threshold lies above the distance, minLevel 0 beyond all bands
BandLevel(distance, lods) ==
    IF \E k \in 1..Len(lods) : distance < 100 * lods[k]
    THEN Len(lods) - ((CHOOSE k \in 1..Len(lods) :
                          /\ distance < 100 * lods[k]
                          /\ \A j \in 1..(k - 1) : ~ (distance < 100 * lods[j])) - 1)
    ELSE 0

\* C3: getDesiredLevel returns maxLevel - i for the smallest index i with
\* distance < lodDistances[i] and 0 when there is none; the result lies in
\* [0, maxLevel] and never increases with the distance.
DesiredLevelByBand ==
    \A v \in visits :
        /\ v[3] = BandLevel(v[2], lodDistances)
        /\ v[3] \in 0..Len(lodDistances)
        /\ \A w \in visits : w[2] >= v[2] => w[3] <= v[3]

\* one build met both a node in the nearest band and a farther node beyond all bands
DesiredLevelBothEnds ==
    /\ builds > 0
    /\ \E v \in visits, w \in visits :
           /\ v[3] = Len(lodDistances)
           /\ w[3] = 0
           /\ w[2] > v[2]
           /\ \E u \in visits : u[3] \notin {0, Len(lodDistances)}

\* the theta ranges of two nodes overlap
ThetaOverlap(a, b) == thetaMin(a) < thetaMax(b) /\ thetaMin(b) < thetaMax(a)

\* C4: a leaf whose phi range ends at 2 pi and a leaf whose phi range starts at 0
\* are adjacent for isAdjacent when their theta ranges overlap.
AdjacentAcrossSeam ==
    \A a \in Leaves, b \in Leaves :
        (a # b /\ phiMax(a) = 2 ^ MaxDepth /\ phiMin(b) = 0 /\ ThetaOverlap(a, b))
            => isAdjacent(a, b)

\* C5: two distinct leaves that both touch the pole theta = 0, or both the pole
\* theta = pi, are adjacent for isAdjacent whatever their phi ranges.
AdjacentAtPoles ==
    \A a \in Leaves, b \in Leaves :
        (a # b /\ ((thetaMin(a) = 0 /\ thetaMin(b) = 0)
                   \/ (thetaMax(a) = 2 ^ MaxDepth /\ thetaMax(b) = 2 ^ MaxDepth)))
            => isAdjacent(a, b)

\* C6: balanceTree has raised a flag when it returns if and only if two adjacent
\* leaves still differ by more than one level.
FlaggedIffUnbalanced == Returned => (warned <=> Unbalanced(Leaves))

-----------------------------------------------------------------------------
(* Properties of the TerrainGenerator                                      *)

\* C7 (SpecTerrain): a getHeight call at a position returns the height, features,
\* temperature and biome of every earlier call there that was made with the same
\* or a smaller distance, the generator not having been regenerated in between.
RepeatableHeight ==
    \A p \in DOMAIN returned :
        \A i \in 1..Len(returned[p]), j \in 1..Len(returned[p]) :
            (i < j /\ returned[p][j][1] >= returned[p][i][1])
                => returned[p][j][2] = returned[p][i][2]

\* a position below the water level was asked twice, the second time from farther away
RepeatedUnderwater ==
    \E p \in DOMAIN returned :
        /\ Len(returned[p]) >= 2
        /\ returned[p][2][1] > returned[p][1][1]
        /\ Includes(returned[p][2][2].features, "underwater")

\* the tier whose threshold is the smallest one the distance does not exceed, tier 0
\* when the distance exceeds them all
FinestTier(distance) ==
    IF \E k \in 1..Len(LOD) : distance <= LOD[k]
    THEN (CHOOSE k \in 1..Len(LOD) :
             /\ distance <= LOD[k]
             /\ \A j \in 1..Len(LOD) : distance <= LOD[j] => LOD[k] <= LOD[j]) - 1
    ELSE 0

\* C8 (SpecFeature): getRequiredLod returns the index of the finest threshold the
\* distance does not exceed, and tier 0 beyond the coarsest threshold.
RequiredLodNearerFiner ==
    Done("getRequiredLod") => lastRet.value = FinestTier(lastCall.distance)

\* C9 (SpecFeature): applyFeature of any generator returns heightAdjustment 0 and
\* no label and leaves existingFeatures as it was when an existing label is
\* prohibited for the generator or outside its allow-list.
RefusesIncompatible ==
    (/\ Done("applyFeature")
     /\ (~ canApplyWith(lastCall.gen, lastCall.existing)
         \/ ~ canApplyWithout(lastCall.gen, lastCall.existing)))
        => /\ ~ lastRet.threw
           /\ lastRet.height = 0
           /\ lastRet.label = Null
           /\ lastRet.features = lastCall.existing

\* ValleyAndRiverGenerator was handed a prohibited label, CraterGenerator a label
\* outside its allow-list, and returned
RefusedIncompatible ==
    /\ Done("applyFeature")
    /\ ~ lastRet.threw
    /\ \/ /\ lastCall.gen = "ValleyAndRiverGenerator"
          /\ lastCall.existing = <<"plain">>
          /\ lastCall.biome = "temperate"
       \/ /\ lastCall.gen = "CraterGenerator"
          /\ lastCall.existing = <<"underwater">>
          /\ lastCall.biome = "temperate"

-----------------------------------------------------------------------------
(* Properties of the mesh (SpecMesh)                                       *)

\* generateGeometry was the last call and it returned
Generated == lastCall.op = "generateGeometry" /\ ~ lastRet.threw

\* a toggleFeatureGenerator call is the step taken
ToggleStep == lastCall'.op = "toggleFeatureGenerator" /\ calls' = calls + 1

\* the positions whose record is cached: the corners of the leaves
CachedPoints ==
    { p \in { Corners(l)[c] : l \in Leaves, c \in 1..4 } :
          getCoarseKey(p[1], p[2]) \in DOMAIN featureMap }

\* C12 (SpecMesh): toggleFeatureGenerator(name, enabled) changes the flag of the named
\* generator and nothing else: the cached records, the flags of the other generators, the
\* quadtree and the mesh buffers stay as they were; with an unknown name no flag changes;
\* getHeight goes on returning the cached record of a position after the toggle.
ToggleChangesOnlyTheFlag ==
    [][ToggleStep =>
          /\ featureMap' = featureMap
          /\ UNCHANGED treeVars
          /\ UNCHANGED <<vertexMap, positions, colors, indices>>
          /\ \A g \in GenNames : g # lastCall'.gen => enabled'[g] = enabled[g]
          /\ lastCall'.gen \in GenNames => enabled'[lastCall'.gen] = lastCall'.on
          /\ lastCall'.gen \notin GenNames => enabled' = enabled
          /\ \A p \in CachedPoints : \A d \in {0, 1500} :
                 getHeight(featureMap', p[1], p[2], d, enabled')
                     = getHeight(featureMap, p[1], p[2], d, enabled)]_vars

\* C12 witness: a known generator was switched on over a generated mesh with cached records
ToggledOverMesh ==
    /\ lastCall.op = "toggleFeatureGenerator"
    /\ lastCall.gen \in GenNames
    /\ enabled[lastCall.gen]
    /\ positions # <<>>
    /\ CachedPoints # {}

LeafCornerKeys == { CornerKey(Corners(l)[c]) : l \in Leaves, c \in 1..4 }

\* the buffers as addVertex finds them
CurrentBuffers ==
    [threw |-> FALSE, fm |-> featureMap, vm |-> vertexMap, positions |-> positions,
     colors |-> colors, indices |-> indices, quad |-> <<>>]

\* addVertex at a point whose key is in vertexMap returns the cached index and appends nothing
SeenKeyReturnsCached(p, r) ==
    /\ r.positions = positions
    /\ r.colors = colors
    /\ r.vm = vertexMap
    /\ r.quad = << vertexMap[CornerKey(p)] >>

\* C14 (SpecMesh): after generateGeometry the number of vertices emitted (positions,
\* colors and vertexMap agree on it) is the number of distinct getVertexKey values over
\* the four corners of all leaves; every entry of the index buffer is the index of an
\* emitted vertex; addVertex with a key already seen returns the cached index and
\* appends nothing.
VerticesAreDistinctKeys ==
    Generated =>
        /\ Len(positions) = Len(colors)
        /\ Len(positions) = Cardinality(DOMAIN vertexMap)
        /\ DOMAIN vertexMap = LeafCornerKeys
        /\ Len(indices) = 6 * Cardinality(Leaves)
        /\ \A k \in 1..Len(indices) : indices[k] \in 0..(Len(positions) - 1)
        /\ \A key \in DOMAIN vertexMap : vertexMap[key] \in 0..(Len(positions) - 1)
        /\ \A l \in Leaves : \A c \in 1..4 :
               SeenKeyReturnsCached(Corners(l)[c],
                   addVertex(CurrentBuffers, Corners(l)[c][1], Corners(l)[c][2], camera, rootBase,
                             internal, enabled, lodDistances[1]))

\* C14 witness: a mesh whose leaves share corners, the seam and the poles among them
SharedCornersEmitted ==
    /\ Generated
    /\ Len(positions) > 4
    /\ Len(positions) < 4 * Cardinality(Leaves)
    /\ forced # {}

-----------------------------------------------------------------------------
(* Properties of getVertexKey (SpecKey)                                    *)

\* C15 (SpecKey): at the poles, theta = 0 and theta = pi, the key getVertexKey returns
\* does not depend on phi: it is the key of every other phi at that theta.
PoleKeyIgnoresPhi ==
    (Done("getVertexKey") /\ lastCall.theta \in {0, Pi8})
        => \A phi \in PhiInputs : lastRet.key = getVertexKey(lastCall.theta, phi)

\* C15 witness: the key of the south pole at a phi in the middle of the range
PoleKeyTaken ==
    /\ Done("getVertexKey")
    /\ lastCall.theta = Pi8
    /\ lastCall.phi = Rad8(16)
    /\ lastRet.key = VertexKeyOf(Pi8, 0)

\* C16 (SpecKey): away from the poles, the key of a phi within epsilon = 1e-6 of 2 pi
\* is the key of phi = 0 at that theta.
SeamKeyIsKeyOfZero ==
    (/\ Done("getVertexKey")
     /\ lastCall.theta \notin {0, Pi8}
     /\ Abs(lastCall.phi - TwoPi8) < Epsilon8)
        => lastRet.key = getVertexKey(lastCall.theta, 0)

\* C16 witness: the key of the equator at a phi just below 2 pi
SeamKeyTaken ==
    /\ Done("getVertexKey")
    /\ lastCall.theta = Rad8(16)
    /\ lastCall.phi = TwoPi8 - 50
    /\ lastRet.key = VertexKeyOf(Rad8(16), 0)

-----------------------------------------------------------------------------
(* Termination of balanceTree (SpecTreeFair)                               *)

\* what the iteration of balanceTree that is due yields
IterationResult ==
    BalanceNeighbors(Head(queue), getAdjacentNodes(Head(queue), findAllLeaves(Root, internal)),
                     internal, Tail(queue), forced)

\* an iteration shortens the queue or subdivides a leaf
IterationChanges(r) == r.queue # queue \/ r.internal # internal

\* C17 (SpecTreeFair): balanceTree always terminates: once it has started, its work
\* queue becomes empty and it returns, after finitely many forced subdivisions; no
\* iteration leaves both the queue and the tree as they were.
BalanceTreeTerminates ==
    /\ [](BalanceRunning => IterationChanges(IterationResult))
    /\ (pc = "balance") ~> (pc = "idle" /\ queue = <<>>)

\* C17 witness: balanceTree has returned after forcing subdivisions
ReturnedAfterForcing == pc = "idle" /\ builds > 0 /\ queue = <<>> /\ forced # {}

-----------------------------------------------------------------------------
(* Levels of the nodes (SpecCapped)                                        *)

\* the nodes of the tree
Nodes == {Root} \cup { Children(n)[k] : n \in internal, k \in 1..4 }

\* C19 (SpecCapped): every node's level is its depth in the tree: the root has level 0
\* and each child has the level of its parent plus one, forced subdivisions included.
LevelIsDepth == \A n \in Nodes : Level(n, flat) = n[1]

-----------------------------------------------------------------------------
(* Shape of the tree (SpecUpdate)                                          *)

Area(n) == (thetaMax(n) - thetaMin(n)) * (phiMax(n) - phiMin(n))

\* the interiors of two rectangles meet
Overlap(a, b) ==
    /\ thetaMin(a) < thetaMax(b) /\ thetaMin(b) < thetaMax(a)
    /\ phiMin(a) < phiMax(b) /\ phiMin(b) < phiMax(a)

Within(a, b) ==
    /\ thetaMin(b) <= thetaMin(a) /\ thetaMax(a) <= thetaMax(b)
    /\ phiMin(b) <= phiMin(a) /\ phiMax(a) <= phiMax(b)

\* the four children of n split its ranges at the midpoints
SplitAtMidpoints(n, c) ==
    /\ Len(c) = 4
    /\ \A k \in 1..4 : c[k][1] = n[1] + 1 /\ Within(c[k], n)
    /\ 2 * thetaMax(c[1]) = thetaMin(n) + thetaMax(n) /\ 2 * phiMax(c[1]) = phiMin(n) + phiMax(n)
    /\ thetaMin(c[1]) = thetaMin(n) /\ phiMin(c[1]) = phiMin(n)
    /\ thetaMin(c[2]) = thetaMin(n) /\ thetaMax(c[2]) = thetaMax(c[1])
    /\ phiMin(c[2]) = phiMax(c[1]) /\ phiMax(c[2]) = phiMax(n)
    /\ thetaMin(c[3]) = thetaMax(c[1]) /\ thetaMax(c[3]) = thetaMax(n)
    /\ phiMin(c[3]) = phiMin(n) /\ phiMax(c[3]) = phiMax(c[1])
    /\ thetaMin(c[4]) = thetaMax(c[1]) /\ thetaMax(c[4]) = thetaMax(n)
    /\ phiMin(c[4]) = phiMax(c[1]) /\ phiMax(c[4]) = phiMax(n)
    /\ \A k \in 1..4 : \A m \in 1..4 : k # m => ~ Overlap(c[k], c[m])
    /\ Area(c[1]) + Area(c[2]) + Area(c[3]) + Area(c[4]) = Area(n)

LeafSeq == findAllLeaves(Root, internal)

\* the rectangles of a sequence of nodes cover the domain without gap or overlap
Tiles(leaves) ==
    /\ \A k \in 1..Len(leaves) : Within(leaves[k], Root)
    /\ \A k \in 1..Len(leaves) : \A m \in 1..Len(leaves) :
           k # m => ~ Overlap(leaves[k], leaves[m])
    /\ SumSeq([k \in 1..Len(leaves) |-> Area(leaves[k])]) = Area(Root)

LeavesTile == \E leaves \in {LeafSeq} : Tiles(leaves)

\* C20 (SpecUpdate): every internal node has exactly the four children nw, ne, sw, se
\* that split its ranges at the midpoints, with union the parent and disjoint interiors;
\* the leaves tile the whole domain after every build, balance, merge and update;
\* subdivide on a node that is not a leaf changes nothing.
ChildrenPartitionParent ==
    /\ \A n \in internal : SplitAtMidpoints(n, Children(n))
    /\ \A n \in internal : n = Root \/ \E p \in internal : \E k \in 1..4 : Children(p)[k] = n
    /\ LeavesTile
    /\ \A n \in internal : subdivide(n, internal) = internal

\* C20 witness: an update that merged a node has been balanced with forced subdivisions
UpdatedWithMergeAndForcing ==
    /\ lastCall.op = "updateTree"
    /\ pc = "idle"
    /\ \E k \in 1..Len(lastRet.changed) : lastRet.changed[k][2] = "merge"
    /\ forced # {}
    /\ Len(LeafSeq) > 4

-----------------------------------------------------------------------------
(* Properties of the feature generators (SpecFeature)                      *)

\* the labels an applyFeature call pushed onto existingFeatures
Pushed == SubSeq(lastRet.features, Len(lastCall.existing) + 1, Len(lastRet.features))

\* C21 (SpecFeature): applyFeature keeps the labels of existingFeatures in place: the
\* list passed in is a prefix of the list afterwards.  Only ValleyAndRiverGenerator
\* appends, only river, tributary or mouth, each at most once (a label already in the
\* list is not pushed again), and only in a call that returns the label valley.
ExistingFeaturesKept ==
    Done("applyFeature") =>
        /\ Len(lastRet.features) >= Len(lastCall.existing)
        /\ SubSeq(lastRet.features, 1, Len(lastCall.existing)) = lastCall.existing
        /\ \A k \in 1..Len(Pushed) :
              /\ Pushed[k] \in {"river", "tributary", "mouth"}
              /\ ~ Includes(lastCall.existing, Pushed[k])
              /\ \A j \in 1..Len(Pushed) : j # k => Pushed[j] # Pushed[k]
        /\ Pushed # <<>> =>
              /\ lastCall.gen = "ValleyAndRiverGenerator"
              /\ lastRet.label = "valley"
              /\ ~ lastRet.threw

\* C21 witness: ValleyAndRiverGenerator pushed a label behind labels that were there
PushedBehindExisting ==
    /\ Done("applyFeature")
    /\ lastCall.existing # <<>>
    /\ Pushed # <<>>

\* what applyFeaturesForLod gives for the pending arguments with the registration list
\* of the constructor
WithConstructorOrder ==
    ApplyFeaturesForLodRet(
        applyFeaturesForLod(GenOrder, lastCall.theta, lastCall.phi, lastCall.lod, lastCall.height,
                            lastCall.temperature, lastCall.existing, enabled))

\* C22 (SpecFeature): one tier pass of applyFeaturesForLod calls applyFeature of enabled
\* generators gated to the tier only, in ascending order of class name and each at most
\* once, all of them when no call throws; what the pass returns (or that it throws, and
\* the calls it made) is what it is with the registration list of the constructor, for
\* every registration list.
EvaluatedByName ==
    Done("applyFeaturesForLod") =>
        /\ \A i \in 1..Len(lastRet.evaluated), j \in 1..Len(lastRet.evaluated) :
              i < j => NameBefore(lastRet.evaluated[i], lastRet.evaluated[j])
        /\ \A k \in 1..Len(lastRet.evaluated) :
              Applicable(lastRet.evaluated[k], lastCall.lod, enabled)
        /\ ~ lastRet.threw =>
              Range(lastRet.evaluated) = { g \in GenNames : Applicable(g, lastCall.lod, enabled) }
        /\ lastRet = WithConstructorOrder

\* C22 witness: a pass over a registration list other than the constructor's called
\* applyFeature of several generators and returned
EvaluatedSeveralRegisteredOtherwise ==
    /\ Done("applyFeaturesForLod")
    /\ lastCall.registered # GenOrder
    /\ Len(lastRet.evaluated) >= 2
    /\ ~ lastRet.threw

-----------------------------------------------------------------------------
(* Properties of subdivide and of the tree across rebuilds                 *)

\* a buildTree call is the step taken
BuildStep == builds' = builds + 1

\* C23 (SpecTree): subdivide asks the terrain generator for a node's baseHeight, at the
\* node's midpoint with distance 0, only while the baseHeight is unset, which is the
\* first time the root is split; a rebuild splits the root again without a query and
\* with the baseHeight it had.  The children get the node's baseHeight: the distance of
\* every node below the root is measured with it.
BaseHeightQueriedOnce ==
    [][BuildStep =>
          /\ rootBase.isNull =>
                /\ lastCall' = GetHeightCallRecord(getCenter(Root).theta, getCenter(Root).phi, 0)
                /\ ~ lastRet'.threw =>
                      rootBase' = [isNull |-> FALSE, height |-> lastRet'.height]
          /\ ~ rootBase.isNull =>
                /\ rootBase' = rootBase
                /\ UNCHANGED <<featureMap, returned, lastCall, lastRet>>
          /\ \A v \in visits' :
                v[1] # Root =>
                    v[2] = calculateDistanceToCamera(getCenter(v[1]).theta, getCenter(v[1]).phi,
                                                     camera', rootBase')]_vars

\* C23 witness: the tree was rebuilt and nodes below the root were split again
RebuiltBelowRoot ==
    /\ builds >= 2
    /\ ~ rootBase.isNull
    /\ rootBase.height # 0
    /\ \E n \in internal : n # Root

-----------------------------------------------------------------------------
(* Properties of the cached records (SpecTerrain)                          *)

\* how often a label occurs in a feature list
Occurrences(features, label) == Cardinality({ k \in 1..Len(features) : features[k] = label })

\* C24 (SpecTerrain): however many getHeight calls were made on a coarse bucket, the
\* feature list of its record holds the label underwater at most once, and so does the
\* list a call returns; the label is in the returned list whenever the sum of the tier
\* heights of the record the call returns from is below the water level.
UnderwaterAtMostOnce ==
    /\ \A key \in DOMAIN featureMap :
          Occurrences(Flat(featureMap[key].features), "underwater") <= 1
    /\ (lastCall.op = "getHeight" /\ ~ lastRet.threw) =>
          /\ Occurrences(lastRet.features, "underwater") <= 1
          /\ SumSeq(featureMap[getCoarseKey(lastCall.theta, lastCall.phi)].heights) < WaterLevel
                 => Includes(lastRet.features, "underwater")

\* C24 witness: two positions of one coarse bucket were asked, the bucket is below the
\* water level and the second call returned the label
UnderwaterBucketAskedTwice ==
    \E p \in DOMAIN returned, q \in DOMAIN returned :
        /\ p # q
        /\ getCoarseKey(p[1], p[2]) = getCoarseKey(q[1], q[2])
        /\ lastCall.op = "getHeight"
        /\ <<lastCall.theta, lastCall.phi>> = q
        /\ Includes(lastRet.features, "underwater")
        /\ SumSeq(featureMap[getCoarseKey(q[1], q[2])].heights) < WaterLevel

\* what getHeight returns for the last call's arguments when no other query was made
\* since the featureMap was emptied
AskedFirst ==
    GetHeightRetRecord(getHeight(EmptyMap, lastCall.theta, lastCall.phi, lastCall.distance, enabled))

\* C25 (SpecTerrain): the record getHeight returns for (theta, phi, distance) does not
\* depend on the queries made before it since the last regenerateTerrain: it is the
\* record the call returns when it is the first query, also when other positions of the
\* same coarse bucket were asked earlier.
ReturnIndependentOfEarlierQueries ==
    lastCall.op = "getHeight" =>
        /\ lastRet.threw = AskedFirst.threw
        /\ lastRet.height = AskedFirst.height
        /\ lastRet.features = AskedFirst.features
        /\ lastRet.temperature = AskedFirst.temperature

\* the last call on the tree is an updateTree made with the camera position of the
\* buildTree or updateTree before it
UpdatedAtSameCamera ==
    /\ lastCall.op = "updateTree"
    /\ lastCall.builds = builds
    /\ lastCall.camera = lastCall.prevCamera

\* C26 (SpecUpdate): updateTree called with the camera position of the immediately
\* preceding buildTree or updateTree changes no node (its changedNodes list is empty),
\* and when it has returned the leaves are the leaves it found.
UpdateStableAtFixedCamera ==
    UpdatedAtSameCamera =>
        /\ lastRet.changed = <<>>
        /\ pc = "idle" => Leaves = lastCall.prevLeaves

\* C27 (SpecUpdate): after any sequence of buildTree, updateTree and the balanceTree
\* iterations they run, no node has a level above maxLevel, the number of LOD
\* thresholds: neither the descent nor a forced subdivision goes deeper.
NoNodeDeeperThanMaxLevel ==
    \A n \in Nodes : n[1] <= Len(lodDistances)

\* C27 witness: an updateTree has returned, its balanceTree forced a subdivision and
\* the tree has leaves at maxLevel
UpdatedToMaxLevelWithForcing ==
    /\ lastCall.op = "updateTree"
    /\ lastCall.builds = builds
    /\ pc = "idle"
    /\ forced # {}
    /\ \E n \in Nodes : n[1] = Len(lodDistances)

\* C28 (SpecUpdate): the subdivisions balanceTree forces never ask the terrain generator:
\* every node other than the root carries a baseHeight that is set, the root is never
\* the neighbour that is subdivided, and balanceTree, which hands subdivide an undefined
\* terrain, never throws.
ForcedSubdivisionNeedsNoTerrain ==
    /\ \A n \in Nodes : n # Root => ~ baseHeightUnset(baseHeightOf(n, rootBase))
    /\ Root \notin forced
    /\ ~ (lastCall.op = "balanceTree" /\ lastRet.threw)

\* C28 witness: balanceTree has forced subdivisions on a rebuilt or updated tree and returned
ForcedAndReturned ==
    /\ pc = "idle"
    /\ Cardinality(forced) >= 2
    /\ ~ lastRet.threw

\* ValleyAndRiverGenerator applied where no feature was recorded and added valley and river
ValleyAndRiverAdded ==
    /\ Done("applyFeature")
    /\ lastCall.gen = "ValleyAndRiverGenerator"
    /\ lastCall.existing = <<>>
    /\ lastRet.label = "valley"
    /\ Includes(lastRet.features, "river")

\* C29 (SpecFeature): when ValleyAndRiverGenerator applies at a position without earlier
\* features and adds both valley and river, the feature list, once the returned label
\* has been pushed, has valley first and river second: valley is the primary feature and
\* river the secondary one.
ValleyPrecedesRiver ==
    ValleyAndRiverAdded =>
        /\ FeaturesWithLabel(lastRet.features, lastRet.label)[1] = "valley"
        /\ FeaturesWithLabel(lastRet.features, lastRet.label)[2] = "river"

\* C30 (SpecFeature): for every generator class the allow-list of canApplyWith and the
\* prohibited list of canApplyWithout have no label in common, and for the list handed
\* to applyFeature canApplyWith = true implies canApplyWithout = true: the prohibited
\* list never refuses what the allow-list accepted.
AllowedIsNotProhibited ==
    /\ \A g \in GenNames : CompatibleFeatures(g) \cap ProhibitedFeatures(g) = {}
    /\ Done("applyFeature") =>
          (canApplyWith(lastCall.gen, lastCall.existing)
               => canApplyWithout(lastCall.gen, lastCall.existing))

\* C30 witness: applyFeature was called with a list of several labels that the
\* generator's allow-list accepts
AcceptedSeveralLabels ==
    /\ Done("applyFeature")
    /\ Len(lastCall.existing) >= 2
    /\ canApplyWith(lastCall.gen, lastCall.existing)
====
